---- MODULE Spec2Model ----
(***************************************************************************)
(* Student enrollment back end: the JsonPowerDB data-access facade          *)
(* (JsonPowerDBService), its in-memory fallback map, the remote relation it *)
(* talks to, and the Express route handlers that call it.                   *)
(***************************************************************************)
EXTENDS Integers, Sequences, FiniteSets, TLC

VARIABLES
    fallback,   \* JsonPowerDBService.inMemoryFallback: insertion-ordered Map
    remote,     \* the STUDENT-TABLE relation held by the remote store
    cl,         \* per caller: the call in flight and where it is suspended
    last,       \* what the handler that ran most recently did
    prev,       \* what was done before `last` (kept when scope.depth > 1);
                \* with requests in flight at once, the exchanges the remote
                \* store has had so far, in the order it had them
    scope       \* the bounds of this run: roll numbers used, calls remembered

vars == <<fallback, remote, cl, last, prev, scope>>

----------------------------------------------------------------------------
(* JavaScript values *)

\* JavaScript values other than Student objects: null, undefined, the
\* booleans, the empty string and arrays
Null == [null |-> TRUE]
Undefined == [undefined |-> TRUE]
True == [bool |-> TRUE]
False == [bool |-> FALSE]
EmptyString == [str |-> ""]
\* the outcome of a call (or of a try block) that threw
Raised == [raised |-> TRUE]
Array(items) == [items |-> items]
Number(n) == [num |-> n]

\* !v
Falsy(v) == v \in {Null, Undefined, False, EmptyString}

\* the absence of a value in the model (no argument, no record under a key)
None == [none |-> TRUE]

\* { ...a, ...b }: the fields of b win
Spread(a, b) ==
    [f \in (DOMAIN a) \cup (DOMAIN b) |-> IF f \in DOMAIN b THEN b[f] ELSE a[f]]

\* obj[f] || "": a missing field and the empty string both give ""
OrEmpty(obj, f) == IF f \in DOMAIN obj /\ obj[f] # "" THEN obj[f] ELSE ""

\* String.prototype.trim on the strings that occur
Trim(s) == IF s \in {"", " ", "  "} THEN "" ELSE s

----------------------------------------------------------------------------
(* Map<string, Student> with JavaScript's insertion order *)

MapHas(m, k) == \E i \in DOMAIN m : m[i].k = k

MapGet(m, k) == m[CHOOSE i \in DOMAIN m : m[i].k = k].v

MapSet(m, k, v) ==
    IF MapHas(m, k)
    THEN [i \in DOMAIN m |-> IF m[i].k = k THEN [k |-> k, v |-> v] ELSE m[i]]
    ELSE Append(m, [k |-> k, v |-> v])

MapDelete(m, k) == SelectSeq(m, LAMBDA e : e.k # k)

MapValues(m) == [i \in DOMAIN m |-> m[i].v]

\* fallback.get(rollNo) || null
GetOrNull(m, k) == IF MapHas(m, k) THEN MapGet(m, k) ELSE Null

----------------------------------------------------------------------------
(* Data *)

RollNos == {"101", "102"}

\* new Date().toISOString().split("T")[0]
Today == "2026-11-04"

SampleDate == "2024-06-01"

BodyA ==
    [fullName |-> "Ananya Sharma", class |-> "10A",
     birthDate |-> "2007-09-15", address |-> "Pune, MH"]

BodyB ==
    [fullName |-> "Ravi Kumar", class |-> "10B",
     birthDate |-> "2008-01-20", address |-> "Delhi, DL"]

Bodies == {BodyA, BodyB}

\* Omit<Student, "enrollmentDate">
NewStudent(rollNo, body) == Spread([rollNo |-> rollNo], body)

\* a body whose fullName is blank
Blank(body) == [body EXCEPT !.fullName = "  "]
\* a body that has no address
Lacking(body) == [f \in DOMAIN body \ {"address"} |-> body[f]]
\* request bodies that fail validation
InvalidOf(body) == {Blank(body), Lacking(body)}

\* Omit<Student, "rollNo">
UpdA == Spread(BodyA, [enrollmentDate |-> SampleDate])
\* a PUT body whose student object carries a rollNo of its own
UpdR == Spread(UpdA, [rollNo |-> "999"])
Updates == {UpdA, UpdR}

----------------------------------------------------------------------------
(* The vendor's wire format and the remote relation *)

WireFields ==
    {"Roll-No", "Full-Name", "Class", "Birth-Date", "Address", "Enrollment-Date"}

\* jsonStr of the PUT command
PutRecord(student, enrollmentDate) ==
    ("Roll-No" :> student.rollNo) @@ ("Full-Name" :> student.fullName) @@
    ("Class" :> student.class) @@ ("Birth-Date" :> student.birthDate) @@
    ("Address" :> student.address) @@ ("Enrollment-Date" :> enrollmentDate)

\* jsonStr[rollNo] of the UPDATE command: the mutable fields only
UpdateRecord(updates) ==
    ("Full-Name" :> updates.fullName) @@ ("Class" :> updates.class) @@
    ("Birth-Date" :> updates.birthDate) @@ ("Address" :> updates.address) @@
    ("Enrollment-Date" :> updates.enrollmentDate)

\* the object literal built from a parsed vendor record
FromWire(d) ==
    [rollNo |-> OrEmpty(d, "Roll-No"),
     fullName |-> OrEmpty(d, "Full-Name"),
     class |-> OrEmpty(d, "Class"),
     birthDate |-> OrEmpty(d, "Birth-Date"),
     address |-> OrEmpty(d, "Address"),
     enrollmentDate |-> OrEmpty(d, "Enrollment-Date")]

GetPayload(rollNo) == [cmd |-> "GET_BY_KEY", key |-> rollNo]
GetAllPayload == [cmd |-> "GET_ALL"]
PutPayload(student, enrollmentDate) ==
    [cmd |-> "PUT", key |-> student.rollNo,
     rec |-> PutRecord(student, enrollmentDate)]
UpdatePayload(rollNo, updates) ==
    [cmd |-> "UPDATE", key |-> rollNo, rec |-> UpdateRecord(updates)]
RemovePayload(rollNo) == [cmd |-> "REMOVE", key |-> rollNo]

MsgSuccess == "success"
MsgFailure == "error"
NotAString == "#200"
IsString(m) == m # NotAString
IncludesSuccess(m) == m = MsgSuccess

EmptyRelation == [k \in RollNos |-> None]

\* Object.values of the relation: its records, in key order
KeyOrder == <<"101", "102">>

RECURSIVE RelationValues(_, _)
RelationValues(rem, i) ==
    IF i > Len(KeyOrder) THEN <<>>
    ELSE IF rem[KeyOrder[i]] = None THEN RelationValues(rem, i + 1)
    ELSE <<rem[KeyOrder[i]]>> \o RelationValues(rem, i + 1)

\* What the remote store does with a command it accepts, and the JSON object
\* it answers with: [rem |-> relation afterwards, obj |-> the answer]
Serve(payload, rem) ==
    CASE payload.cmd = "GET_BY_KEY" ->
           [rem |-> rem,
            obj |-> IF rem[payload.key] = None
                    THEN [message |-> MsgFailure]
                    ELSE [message |-> MsgSuccess,
                          data |-> [json |-> TRUE, val |-> rem[payload.key]]]]
      [] payload.cmd = "GET_ALL" ->
           [rem |-> rem,
            obj |-> [message |-> MsgSuccess,
                     data |-> [json |-> TRUE,
                               val |-> RelationValues(rem, 1)]]]
      [] payload.cmd = "PUT" ->
           [rem |-> [rem EXCEPT ![payload.key] = payload.rec],
            obj |-> [message |-> MsgSuccess]]
      [] payload.cmd = "UPDATE" ->
           IF rem[payload.key] = None
           THEN [rem |-> rem, obj |-> [message |-> MsgFailure]]
           ELSE [rem |-> [rem EXCEPT ![payload.key] =
                                 Spread(rem[payload.key], payload.rec)],
                 obj |-> [message |-> MsgSuccess]]
      [] payload.cmd = "REMOVE" ->
           IF rem[payload.key] = None
           THEN [rem |-> rem, obj |-> [message |-> MsgFailure]]
           ELSE [rem |-> [rem EXCEPT ![payload.key] = None],
                 obj |-> [message |-> MsgSuccess]]

\* How one HTTP exchange with the remote store can end
NetResults ==
    {"error", "html", "unparseable", "served", "refused", "nomessage",
     "malformed"}

\* ... and the bodies makeRequest tells apart
BodyResults == NetResults \cup {"htmljson"}

\* One exchange of each kind the facade tells apart
Nets == {"error", "served", "refused", "nomessage", "malformed"}

\* The exchanges of a run in which the remote store cannot be reached
OutageNets == {"error", "html", "unparseable"}

\* The exchange as http.request sees it: a socket error, or a response body.
\* Only a served command changes the relation.
Exchange(net, payload, rem) ==
    CASE net = "error" -> [rem |-> rem, raw |-> [error |-> TRUE]]
      [] net = "html" ->
           [rem |-> rem, raw |-> [error |-> FALSE, html |-> TRUE, json |-> FALSE]]
      [] net = "htmljson" ->
           \* a JSON document that has the marker inside one of its strings
           [rem |-> rem,
            raw |-> [error |-> FALSE, html |-> TRUE, json |-> TRUE,
                     obj |-> [message |-> MsgSuccess]]]
      [] net = "unparseable" ->
           [rem |-> rem, raw |-> [error |-> FALSE, html |-> FALSE, json |-> FALSE]]
      [] net = "served" ->
           [rem |-> Serve(payload, rem).rem,
            raw |-> [error |-> FALSE, html |-> FALSE, json |-> TRUE,
                     obj |-> Serve(payload, rem).obj]]
      [] net = "refused" ->
           [rem |-> rem,
            raw |-> [error |-> FALSE, html |-> FALSE, json |-> TRUE,
                     obj |-> [message |-> MsgFailure]]]
      [] net = "nomessage" ->
           [rem |-> rem,
            raw |-> [error |-> FALSE, html |-> FALSE, json |-> TRUE,
                     obj |-> [status |-> "500"]]]
      [] net = "malformed" ->
           [rem |-> rem,
            raw |-> [error |-> FALSE, html |-> FALSE, json |-> TRUE,
                     obj |-> [message |-> NotAString,
                              data |-> [json |-> FALSE]]]]

FallbackSentinel == [fallback |-> TRUE]

\* Faulty variant: the body is parsed before it is searched for the marker
MakeRequestParsesFirst(raw) ==
    IF raw.error THEN FallbackSentinel
    ELSE IF raw.json THEN raw.obj
    ELSE FallbackSentinel

\* JsonPowerDBService.makeRequest: what the promise resolves to
MakeRequest(raw) ==
    IF raw.error THEN FallbackSentinel
    ELSE IF raw.html THEN FallbackSentinel
    ELSE IF ~raw.json THEN FallbackSentinel
    ELSE raw.obj

\* response && response.fallback / .data / .message
IsFallback(response) == "fallback" \in DOMAIN response
HasData(response) == "data" \in DOMAIN response
HasMessage(response) == "message" \in DOMAIN response /\ response.message # ""

----------------------------------------------------------------------------
(* JsonPowerDBService: each method from the point where makeRequest has     *)
(* resolved to `response`. The result is [ret |-> the value returned,       *)
(* fb |-> inMemoryFallback afterwards].                                     *)

\* Faulty variant: an unreachable remote store is not made up for by a lookup
\* in the Fallback Store
GetStudentIgnoresFallback(response, fb, rollNo) ==
    IF IsFallback(response)
    THEN [ret |-> Null, fb |-> fb]
    ELSE IF HasData(response)
    THEN IF ~response.data.json
         THEN [ret |-> GetOrNull(fb, rollNo), fb |-> fb]
         ELSE LET student == FromWire(response.data.val)
              IN [ret |-> student, fb |-> MapSet(fb, rollNo, student)]
    ELSE [ret |-> Null, fb |-> fb]

\* Faulty variant: a record read from the remote store is not written through
\* to the Fallback Store
GetStudentSkipsReadThrough(response, fb, rollNo) ==
    IF IsFallback(response)
    THEN [ret |-> GetOrNull(fb, rollNo), fb |-> fb]
    ELSE IF HasData(response)
    THEN IF ~response.data.json
         THEN [ret |-> GetOrNull(fb, rollNo), fb |-> fb]
         ELSE [ret |-> FromWire(response.data.val), fb |-> fb]
    ELSE [ret |-> Null, fb |-> fb]

\* the try block of getStudent after the await
GetStudentTry(response, fb, rollNo) ==
    IF IsFallback(response)
    THEN [ret |-> GetOrNull(fb, rollNo), fb |-> fb]
    ELSE IF HasData(response)
    THEN IF ~response.data.json
         THEN \* JSON.parse throws
              [ret |-> Raised, fb |-> fb]
         ELSE LET student == FromWire(response.data.val)
              IN [ret |-> student, fb |-> MapSet(fb, rollNo, student)]
    ELSE [ret |-> Null, fb |-> fb]

\* Faulty variant: getStudent without its catch block
GetStudentUncaught(response, fb, rollNo) ==
    GetStudentTry(response, fb, rollNo)

\* Faulty variant: an answer that carries neither data nor the fallback
\* indicator is made up for by a lookup in the Fallback Store
GetStudentFallsBackWithoutData(response, fb, rollNo) ==
    LET try == GetStudentTry(response, fb, rollNo)
    IN IF try.ret = Raised \/ (~IsFallback(response) /\ ~HasData(response))
       THEN [ret |-> GetOrNull(try.fb, rollNo), fb |-> try.fb]
       ELSE try

\* try, then the catch block
GetStudentAfter(response, fb, rollNo) ==
    LET try == GetStudentTry(response, fb, rollNo)
    IN IF try.ret = Raised
       THEN [ret |-> GetOrNull(try.fb, rollNo), fb |-> try.fb]
       ELSE try

\* students.forEach(student => inMemoryFallback.set(student.rollNo, student))
RECURSIVE SyncAll(_, _, _)
SyncAll(fb, students, i) ==
    IF i > Len(students) THEN fb
    ELSE SyncAll(MapSet(fb, students[i].rollNo, students[i]), students, i + 1)

\* Faulty variant: an answer without data yields null instead of the Fallback
\* Store's contents
GetAllStudentsNullWithoutData(response, fb) ==
    IF IsFallback(response)
    THEN [ret |-> Array(MapValues(fb)), fb |-> fb]
    ELSE IF HasData(response)
    THEN IF ~response.data.json
         THEN [ret |-> Array(MapValues(fb)), fb |-> fb]
         ELSE LET students == [i \in DOMAIN response.data.val |->
                                   FromWire(response.data.val[i])]
              IN [ret |-> Array(students), fb |-> SyncAll(fb, students, 1)]
    ELSE [ret |-> Null, fb |-> fb]

\* the try block of getAllStudents after the await
GetAllStudentsTry(response, fb) ==
    IF IsFallback(response)
    THEN [ret |-> Array(MapValues(fb)), fb |-> fb]
    ELSE IF HasData(response)
    THEN IF ~response.data.json
         THEN \* JSON.parse throws
              [ret |-> Raised, fb |-> fb]
         ELSE LET students == [i \in DOMAIN response.data.val |->
                                   FromWire(response.data.val[i])]
              IN [ret |-> Array(students), fb |-> SyncAll(fb, students, 1)]
    ELSE [ret |-> Array(MapValues(fb)), fb |-> fb]

\* Faulty variant: the Fallback Store is replaced by the records read from
\* the remote store, so entries the remote store does not have are dropped
GetAllStudentsReplacesFallback(response, fb) ==
    LET try == GetAllStudentsTry(response, fb)
    IN IF try.ret = Raised
       THEN [ret |-> Array(MapValues(fb)), fb |-> fb]
       ELSE IF ~IsFallback(response) /\ HasData(response)
       THEN [ret |-> try.ret, fb |-> SyncAll(<<>>, try.ret.items, 1)]
       ELSE try

\* try, then the catch block
GetAllStudentsAfter(response, fb) ==
    LET try == GetAllStudentsTry(response, fb)
    IN IF try.ret = Raised
       THEN [ret |-> Array(MapValues(try.fb)), fb |-> try.fb]
       ELSE try

\* Faulty variant: a record already in the Fallback Store keeps its address
\* when a newly created record is written over it
CreateStudentKeepsAddressOnFile(response, fb, student, enrollmentDate) ==
    LET newStudent == Spread(student, [enrollmentDate |-> enrollmentDate])
        stored == IF MapHas(fb, student.rollNo)
                  THEN Spread(newStudent,
                              [address |-> MapGet(fb, student.rollNo).address])
                  ELSE newStudent
    IN IF IsFallback(response)
       THEN [ret |-> newStudent, fb |-> MapSet(fb, student.rollNo, stored)]
       ELSE IF HasMessage(response) /\ ~IsString(response.message)
       THEN [ret |-> newStudent, fb |-> MapSet(fb, student.rollNo, stored)]
       ELSE IF HasMessage(response) /\ IncludesSuccess(response.message)
       THEN [ret |-> newStudent, fb |-> MapSet(fb, student.rollNo, stored)]
       ELSE [ret |-> Null, fb |-> fb]

\* Faulty variant: a fallback-indicated response counts as a failed creation
CreateStudentFailsOnFallback(response, fb, student, enrollmentDate) ==
    LET newStudent == Spread(student, [enrollmentDate |-> enrollmentDate])
        again == Spread(student, [enrollmentDate |-> Today])
    IN IF IsFallback(response)
       THEN [ret |-> Null, fb |-> fb]
       ELSE IF HasMessage(response) /\ ~IsString(response.message)
       THEN [ret |-> again, fb |-> MapSet(fb, student.rollNo, again)]
       ELSE IF HasMessage(response) /\ IncludesSuccess(response.message)
       THEN [ret |-> newStudent, fb |-> MapSet(fb, student.rollNo, newStudent)]
       ELSE [ret |-> Null, fb |-> fb]

\* Faulty variant: on a fallback-indicated response the new record is returned
\* without being written to the Fallback Store
CreateStudentReturnsUnstored(response, fb, student, enrollmentDate) ==
    LET newStudent == Spread(student, [enrollmentDate |-> enrollmentDate])
    IN IF IsFallback(response)
       THEN [ret |-> newStudent, fb |-> fb]
       ELSE IF HasMessage(response) /\ ~IsString(response.message)
       THEN LET again == Spread(student, [enrollmentDate |-> Today])
            IN [ret |-> again, fb |-> MapSet(fb, student.rollNo, again)]
       ELSE IF HasMessage(response) /\ IncludesSuccess(response.message)
       THEN [ret |-> newStudent, fb |-> MapSet(fb, student.rollNo, newStudent)]
       ELSE [ret |-> Null, fb |-> fb]

\* the try block of createStudent after the await; enrollmentDate is the
\* date computed before the request was made
CreateStudentTry(response, fb, student, enrollmentDate) ==
    LET newStudent == Spread(student, [enrollmentDate |-> enrollmentDate])
    IN IF IsFallback(response)
       THEN [ret |-> newStudent, fb |-> MapSet(fb, student.rollNo, newStudent)]
       ELSE IF HasMessage(response) /\ ~IsString(response.message)
       THEN \* message.includes is not a function
            [ret |-> Raised, fb |-> fb]
       ELSE IF HasMessage(response) /\ IncludesSuccess(response.message)
       THEN [ret |-> newStudent, fb |-> MapSet(fb, student.rollNo, newStudent)]
       ELSE [ret |-> Null, fb |-> fb]

\* Faulty variant: a creation is refused once the Fallback Store has an
\* entry for the rollNo, as if the existence check were made again at the
\* time of the write
CreateStudentRefusesDuplicate(response, fb, student, enrollmentDate) ==
    LET try == CreateStudentTry(response, fb, student, enrollmentDate)
        again == Spread(student, [enrollmentDate |-> Today])
    IN IF MapHas(fb, student.rollNo)
       THEN [ret |-> Null, fb |-> fb]
       ELSE IF try.ret = Raised
       THEN [ret |-> again, fb |-> MapSet(try.fb, student.rollNo, again)]
       ELSE try

\* try, then the catch block, which computes the date again
CreateStudentAfter(response, fb, student, enrollmentDate) ==
    LET try == CreateStudentTry(response, fb, student, enrollmentDate)
        again == Spread(student, [enrollmentDate |-> Today])
    IN IF try.ret = Raised
       THEN [ret |-> again, fb |-> MapSet(try.fb, student.rollNo, again)]
       ELSE try

\* Faulty variant: on a fallback-indicated response the merged record is
\* returned without being written to the Fallback Store
UpdateStudentReturnsUnstored(response, fb, rollNo, updates) ==
    LET updatedStudent == Spread([rollNo |-> rollNo], updates)
    IN IF IsFallback(response)
       THEN [ret |-> updatedStudent, fb |-> fb]
       ELSE IF HasMessage(response) /\ ~IsString(response.message)
       THEN [ret |-> updatedStudent, fb |-> MapSet(fb, rollNo, updatedStudent)]
       ELSE IF HasMessage(response) /\ IncludesSuccess(response.message)
       THEN [ret |-> updatedStudent, fb |-> MapSet(fb, rollNo, updatedStudent)]
       ELSE [ret |-> Null, fb |-> fb]

\* the try block of updateStudent after the await
UpdateStudentTry(response, fb, rollNo, updates) ==
    LET updatedStudent == Spread([rollNo |-> rollNo], updates)
    IN IF IsFallback(response)
       THEN [ret |-> updatedStudent, fb |-> MapSet(fb, rollNo, updatedStudent)]
       ELSE IF HasMessage(response) /\ ~IsString(response.message)
       THEN \* message.includes is not a function
            [ret |-> Raised, fb |-> fb]
       ELSE IF HasMessage(response) /\ IncludesSuccess(response.message)
       THEN [ret |-> updatedStudent, fb |-> MapSet(fb, rollNo, updatedStudent)]
       ELSE [ret |-> Null, fb |-> fb]

\* try, then the catch block
UpdateStudentAfter(response, fb, rollNo, updates) ==
    LET try == UpdateStudentTry(response, fb, rollNo, updates)
        updatedStudent == Spread([rollNo |-> rollNo], updates)
    IN IF try.ret = Raised
       THEN [ret |-> updatedStudent,
             fb |-> MapSet(try.fb, rollNo, updatedStudent)]
       ELSE try

\* Map.prototype.delete: whether the key was there
MapDeleted(fb, rollNo) == IF MapHas(fb, rollNo) THEN True ELSE False

\* Faulty variant: a removal the remote store confirmed leaves the Fallback
\* Store's entry in place
DeleteStudentKeepsFallbackEntry(response, fb, rollNo) ==
    IF IsFallback(response)
    THEN [ret |-> MapDeleted(fb, rollNo), fb |-> MapDelete(fb, rollNo)]
    ELSE IF "message" \notin DOMAIN response
    THEN [ret |-> Undefined, fb |-> fb]
    ELSE IF response.message = ""
    THEN [ret |-> EmptyString, fb |-> fb]
    ELSE IF ~IsString(response.message)
    THEN [ret |-> MapDeleted(fb, rollNo), fb |-> MapDelete(fb, rollNo)]
    ELSE IF IncludesSuccess(response.message)
    THEN [ret |-> True, fb |-> fb]
    ELSE [ret |-> False, fb |-> fb]

\* success is response && response.message && response.message.includes(..):
\* undefined when the message is missing, "" when it is empty
DeleteStudentTry(response, fb, rollNo) ==
    IF IsFallback(response)
    THEN [ret |-> MapDeleted(fb, rollNo), fb |-> MapDelete(fb, rollNo)]
    ELSE IF "message" \notin DOMAIN response
    THEN [ret |-> Undefined, fb |-> fb]
    ELSE IF response.message = ""
    THEN [ret |-> EmptyString, fb |-> fb]
    ELSE IF ~IsString(response.message)
    THEN \* message.includes is not a function
         [ret |-> Raised, fb |-> fb]
    ELSE IF IncludesSuccess(response.message)
    THEN [ret |-> True, fb |-> MapDelete(fb, rollNo)]
    ELSE [ret |-> False, fb |-> fb]

\* Faulty variant: a removal empties the Fallback Store (Map.clear in place
\* of Map.delete)
DeleteStudentClearsFallback(response, fb, rollNo) ==
    LET try == DeleteStudentTry(response, fb, rollNo)
    IN IF try.ret = Raised
       THEN [ret |-> MapDeleted(try.fb, rollNo), fb |-> <<>>]
       ELSE [ret |-> try.ret, fb |-> IF try.fb = fb THEN fb ELSE <<>>]

\* try, then the catch block
DeleteStudentAfter(response, fb, rollNo) ==
    LET try == DeleteStudentTry(response, fb, rollNo)
    IN IF try.ret = Raised
       THEN [ret |-> MapDeleted(try.fb, rollNo),
             fb |-> MapDelete(try.fb, rollNo)]
       ELSE try

\* How the facade saw the exchange end
NetClass(net) ==
    IF net \in {"error", "html", "htmljson", "unparseable"} THEN "fallback"
    ELSE net

\* One whole facade call made while nothing else is in flight:
\* [ret, fb, rem] from the stores fb and rem it started with
\* Faulty variant: a read that reaches the remote store and finds no record
\* there copies the Fallback Store's entry to it
RunGetStudentReconciles(rollNo, net, fb, rem) ==
    LET ex == Exchange(net, GetPayload(rollNo), rem)
        after == GetStudentAfter(MakeRequest(ex.raw), fb, rollNo)
    IN [ret |-> after.ret, fb |-> after.fb,
        rem |-> IF net = "served" /\ rem[rollNo] = None /\ MapHas(fb, rollNo)
                THEN [rem EXCEPT ![rollNo] =
                         PutRecord(MapGet(fb, rollNo),
                                   MapGet(fb, rollNo).enrollmentDate)]
                ELSE ex.rem]

RunGetStudent(rollNo, net, fb, rem) ==
    LET ex == Exchange(net, GetPayload(rollNo), rem)
        after == GetStudentAfter(MakeRequest(ex.raw), fb, rollNo)
    IN [ret |-> after.ret, fb |-> after.fb, rem |-> ex.rem]

RunGetAllStudents(net, fb, rem) ==
    LET ex == Exchange(net, GetAllPayload, rem)
        after == GetAllStudentsAfter(MakeRequest(ex.raw), fb)
    IN [ret |-> after.ret, fb |-> after.fb, rem |-> ex.rem]

RunCreateStudent(student, net, fb, rem) ==
    LET enrollmentDate == Today
        ex == Exchange(net, PutPayload(student, enrollmentDate), rem)
        after == CreateStudentAfter(MakeRequest(ex.raw), fb, student,
                                    enrollmentDate)
    IN [ret |-> after.ret, fb |-> after.fb, rem |-> ex.rem]

RunUpdateStudent(rollNo, updates, net, fb, rem) ==
    LET ex == Exchange(net, UpdatePayload(rollNo, updates), rem)
        after == UpdateStudentAfter(MakeRequest(ex.raw), fb, rollNo, updates)
    IN [ret |-> after.ret, fb |-> after.fb, rem |-> ex.rem]

RunDeleteStudent(rollNo, net, fb, rem) ==
    LET ex == Exchange(net, RemovePayload(rollNo), rem)
        after == DeleteStudentAfter(MakeRequest(ex.raw), fb, rollNo)
    IN [ret |-> after.ret, fb |-> after.fb, rem |-> ex.rem]

\* jsonPowerDb.studentExists: student !== null
StudentExists(student) == student # Null

\* studentExists and getStudentCount await another facade method outside any
\* try block: what that method raises, they raise
RunStudentExists(rollNo, net, fb, rem) ==
    LET got == RunGetStudent(rollNo, net, fb, rem)
    IN [ret |-> IF got.ret = Raised THEN Raised
                ELSE IF StudentExists(got.ret) THEN True ELSE False,
        fb |-> got.fb, rem |-> got.rem]

RunGetStudentCount(net, fb, rem) ==
    LET got == RunGetAllStudents(net, fb, rem)
    IN [ret |-> IF got.ret = Raised THEN Raised
                ELSE Number(Len(got.ret.items)),
        fb |-> got.fb, rem |-> got.rem]

----------------------------------------------------------------------------
(* The route handlers: validation and the status answered *)

\* Faulty variant: the fields are not trimmed before they are tested
MissingFieldsUntrimmed(obj, requiredFields) ==
    {f \in requiredFields : f \notin DOMAIN obj \/ obj[f] = ""}

\* requiredFields.filter(field => !obj[field] || obj[field].toString().trim() === "")
MissingFields(obj, requiredFields) ==
    {f \in requiredFields : f \notin DOMAIN obj \/ Trim(obj[f]) = ""}

CreateRequired == {"rollNo", "fullName", "class", "birthDate", "address"}
UpdateRequired == {"fullName", "class", "birthDate", "address", "enrollmentDate"}

GetStatus(student) == IF Falsy(student) THEN 404 ELSE 200
CreatedStatus(newStudent) == IF Falsy(newStudent) THEN 500 ELSE 201
UpdateStatus(updatedStudent) == IF Falsy(updatedStudent) THEN 404 ELSE 200
DeleteStatus(deleted) == IF Falsy(deleted) THEN 404 ELSE 200

----------------------------------------------------------------------------
(* The record kept of what a handler did last *)

NoCall == [op |-> "none", route |-> "none", status |-> 0]

\* a facade call that completed: its arguments, how the exchange with the
\* remote store ended, what it returned, whether rollNo had a record in each
\* store when it started, and the route (if any) that made it with the status
\* that route answered (0: no answer yet, or a direct call)
Entry(op, rollNo, arg, net, ret, fb, rem, route, status) ==
    [op |-> op, rollNo |-> rollNo, arg |-> arg, out |-> NetClass(net),
     ret |-> ret,
     hadF |-> IF rollNo = "" THEN fb # <<>> ELSE MapHas(fb, rollNo),
     hadR |-> IF rollNo = "" THEN rem # EmptyRelation ELSE rem[rollNo] # None,
     afterCreate |-> (scope.depth > 1 /\ op = "updateStudent"
                      /\ last.op = "createStudent" /\ last.rollNo = rollNo),
     route |-> route, status |-> status]

\* what is remembered of a call once another one has completed
Brief(e) ==
    IF e.op = "none" THEN NoCall
    ELSE [op |-> e.op, rollNo |-> e.rollNo, arg |-> e.arg, out |-> e.out,
          ret |-> e.ret, afterCreate |-> e.afterCreate]

Remember(e) == IF scope.depth > 1 THEN Brief(e) ELSE NoCall

\* a request answered without a facade call
Rejected(route, status, body) ==
    [op |-> "none", route |-> route, status |-> status, arg |-> body]

Init ==
    /\ fallback = <<>>
    /\ remote = EmptyRelation
    /\ cl = <<>>
    /\ last = NoCall
    /\ prev = NoCall
    /\ scope = [keys |-> RollNos, bodies |-> {BodyA}, nets |-> Nets,
                depth |-> 1]

\* The same program, followed two calls deep on a single roll number
HistInit ==
    /\ fallback = <<>>
    /\ remote = EmptyRelation
    /\ cl = <<>>
    /\ last = NoCall
    /\ prev = NoCall
    /\ scope = [keys |-> {"101"}, bodies |-> Bodies, nets |-> Nets,
                depth |-> 2]

\* a record the remote store may hold from an earlier run of the server
EarlierDate == "2026-10-01"
Preloaded ==
    [EmptyRelation EXCEPT
        !["101"] = PutRecord(NewStudent("101", BodyB), EarlierDate)]

\* The same program while the remote store is unreachable throughout
OutageInit ==
    /\ fallback = <<>>
    /\ remote \in {EmptyRelation, Preloaded}
    /\ cl = <<>>
    /\ last = NoCall
    /\ prev = NoCall
    /\ scope = [keys |-> {"101"}, bodies |-> Bodies, nets |-> OutageNets,
                depth |-> 2]

\* the stores and the call record after one sequential facade call
Completes(run, entry) ==
    /\ fallback' = run.fb
    /\ remote' = run.rem
    /\ prev' = Remember(last)
    /\ last' = entry
    /\ UNCHANGED <<cl, scope>>

----------------------------------------------------------------------------
(* Requests handled one at a time *)

\* jsonPowerDb.createStudent called directly (as initializeSampleData does)
CallCreateStudent(student, net) ==
    \E run \in {RunCreateStudent(student, net, fallback, remote)} :
        Completes(run, Entry("createStudent", student.rollNo, student, net,
                             run.ret, fallback, remote, "none", 0))

\* GET /api/students/:rollNo
RouteGetStudent(rollNo, net) ==
    \E run \in {RunGetStudent(rollNo, net, fallback, remote)} :
        Completes(run, Entry("getStudent", rollNo, None, net, run.ret,
                             fallback, remote, "GET", GetStatus(run.ret)))

\* GET /api/students
RouteGetAllStudents(net) ==
    \E run \in {RunGetAllStudents(net, fallback, remote)} :
        Completes(run, Entry("getAllStudents", "", None, net, run.ret,
                             fallback, remote, "LIST", 200))

\* POST /api/students with a body that fails validation
RoutePostInvalid(student) ==
    /\ MissingFields(student, CreateRequired) # {}
    /\ last' = Rejected("POST", 400, student)
    /\ prev' = Remember(last)
    /\ UNCHANGED <<fallback, remote, cl, scope>>

\* POST /api/students answered 409 after studentExists
RoutePostConflict(student, net) ==
    /\ MissingFields(student, CreateRequired) = {}
    /\ \E run \in {RunGetStudent(student.rollNo, net, fallback, remote)} :
        /\ StudentExists(run.ret)
        /\ Completes(run, Entry("getStudent", student.rollNo, None, net,
                                run.ret, fallback, remote, "POST", 409))

\* POST /api/students: studentExists answers false, then createStudent
RoutePostCreate(student, net1, net2) ==
    /\ MissingFields(student, CreateRequired) = {}
    /\ \E chk \in {RunGetStudent(student.rollNo, net1, fallback, remote)} :
        /\ ~StudentExists(chk.ret)
        /\ \E run \in {RunCreateStudent(student, net2, chk.fb, chk.rem)} :
            /\ fallback' = run.fb
            /\ remote' = run.rem
            /\ prev' = Remember(Entry("getStudent", student.rollNo, None,
                                      net1, chk.ret, fallback, remote,
                                      "POST", 0))
            /\ last' = Entry("createStudent", student.rollNo, student, net2,
                             run.ret, chk.fb, chk.rem, "POST",
                             CreatedStatus(run.ret))
            /\ UNCHANGED <<cl, scope>>

\* PUT /api/students/:rollNo
RouteUpdateStudent(rollNo, updates, net) ==
    /\ MissingFields(updates, UpdateRequired) = {}
    /\ \E run \in {RunUpdateStudent(rollNo, updates, net, fallback, remote)} :
        Completes(run, Entry("updateStudent", rollNo, updates, net, run.ret,
                             fallback, remote, "PUT", UpdateStatus(run.ret)))

\* PUT /api/students/:rollNo with a body that fails validation
RoutePutInvalid(rollNo, updates) ==
    /\ MissingFields(updates, UpdateRequired) # {}
    /\ last' = Rejected("PUT", 400, updates)
    /\ prev' = Remember(last)
    /\ UNCHANGED <<fallback, remote, cl, scope>>

\* DELETE /api/students/:rollNo
RouteDeleteStudent(rollNo, net) ==
    \E run \in {RunDeleteStudent(rollNo, net, fallback, remote)} :
        Completes(run, Entry("deleteStudent", rollNo, None, net, run.ret,
                             fallback, remote, "DELETE",
                             DeleteStatus(run.ret)))

Next ==
    \/ \E r \in scope.keys, b \in scope.bodies, net \in scope.nets :
           CallCreateStudent(NewStudent(r, b), net)
    \/ \E r \in scope.keys, net \in scope.nets : RouteGetStudent(r, net)
    \/ \E net \in scope.nets : RouteGetAllStudents(net)
    \/ \E r \in scope.keys, b \in scope.bodies \cup InvalidOf(BodyA) :
           RoutePostInvalid(NewStudent(r, b))
    \/ \E r \in scope.keys, b \in scope.bodies \cup InvalidOf(BodyA),
          net \in scope.nets :
           RoutePostConflict(NewStudent(r, b), net)
    \/ \E r \in scope.keys, b \in scope.bodies \cup InvalidOf(BodyA),
          net1, net2 \in scope.nets :
           RoutePostCreate(NewStudent(r, b), net1, net2)
    \/ \E r \in scope.keys, u \in Updates \cup InvalidOf(UpdA) :
           RoutePutInvalid(r, u)
    \/ \E r \in scope.keys, u \in Updates \cup InvalidOf(UpdA),
          net \in scope.nets :
           RouteUpdateStudent(r, u, net)
    \/ \E r \in scope.keys, net \in scope.nets : RouteDeleteStudent(r, net)

Spec == Init /\ [][Next]_vars

HistSpec == HistInit /\ [][Next]_vars

OutageSpec == OutageInit /\ [][Next]_vars

----------------------------------------------------------------------------
(* The seven facade methods called directly, one call at a time, under every
   way an exchange with the remote store can end *)

FacadeInit ==
    /\ fallback = <<>>
    /\ remote = EmptyRelation
    /\ cl = <<>>
    /\ last = NoCall
    /\ prev = NoCall
    /\ scope = [keys |-> {"101"}, bodies |-> Bodies, nets |-> NetResults,
                depth |-> 1]

CallGetStudent(rollNo, net) ==
    \E run \in {RunGetStudent(rollNo, net, fallback, remote)} :
        Completes(run, Entry("getStudent", rollNo, None, net, run.ret,
                             fallback, remote, "none", 0))

CallGetAllStudents(net) ==
    \E run \in {RunGetAllStudents(net, fallback, remote)} :
        Completes(run, Entry("getAllStudents", "", None, net, run.ret,
                             fallback, remote, "none", 0))

CallUpdateStudent(rollNo, updates, net) ==
    \E run \in {RunUpdateStudent(rollNo, updates, net, fallback, remote)} :
        Completes(run, Entry("updateStudent", rollNo, updates, net, run.ret,
                             fallback, remote, "none", 0))

CallDeleteStudent(rollNo, net) ==
    \E run \in {RunDeleteStudent(rollNo, net, fallback, remote)} :
        Completes(run, Entry("deleteStudent", rollNo, None, net, run.ret,
                             fallback, remote, "none", 0))

CallStudentExists(rollNo, net) ==
    \E run \in {RunStudentExists(rollNo, net, fallback, remote)} :
        Completes(run, Entry("studentExists", rollNo, None, net, run.ret,
                             fallback, remote, "none", 0))

CallGetStudentCount(net) ==
    \E run \in {RunGetStudentCount(net, fallback, remote)} :
        Completes(run, Entry("getStudentCount", "", None, net, run.ret,
                             fallback, remote, "none", 0))

FacadeNext ==
    \/ \E r \in scope.keys, net \in scope.nets : CallGetStudent(r, net)
    \/ \E net \in scope.nets : CallGetAllStudents(net)
    \/ \E r \in scope.keys, b \in scope.bodies, net \in scope.nets :
           CallCreateStudent(NewStudent(r, b), net)
    \/ \E r \in scope.keys, u \in Updates, net \in scope.nets :
           CallUpdateStudent(r, u, net)
    \/ \E r \in scope.keys, net \in scope.nets : CallDeleteStudent(r, net)
    \/ \E r \in scope.keys, net \in scope.nets : CallStudentExists(r, net)
    \/ \E net \in scope.nets : CallGetStudentCount(net)

FacadeSpec == FacadeInit /\ [][FacadeNext]_vars

\* a record of the relation that has no Roll-No field of its own (the key
\* is held by the remote store, outside the record)
Unkeyed ==
    [EmptyRelation EXCEPT
        !["101"] = [f \in WireFields \ {"Roll-No"} |->
                       PutRecord(NewStudent("101", BodyB), EarlierDate)[f]]]

\* The facade methods called one at a time against a relation that was
\* filled before this server started
ForeignInit ==
    /\ fallback = <<>>
    /\ remote \in {Preloaded, Unkeyed}
    /\ cl = <<>>
    /\ last = NoCall
    /\ prev = NoCall
    /\ scope = [keys |-> {"101"}, bodies |-> {BodyA}, nets |-> Nets,
                depth |-> 1]

ForeignSpec == ForeignInit /\ [][FacadeNext]_vars

----------------------------------------------------------------------------
(* makeRequest on its own: each command the facade sends, under every way
   the exchange can end *)

Payloads ==
    {GetPayload(r) : r \in RollNos} \cup {GetAllPayload}
    \cup {PutPayload(NewStudent(r, b), Today) : r \in RollNos, b \in Bodies}
    \cup {UpdatePayload(r, u) : r \in RollNos, u \in Updates}
    \cup {RemovePayload(r) : r \in RollNos}

RequestInit ==
    /\ fallback = <<>>
    /\ remote = EmptyRelation
    /\ cl = <<>>
    /\ last = NoCall
    /\ prev = NoCall
    /\ scope = [keys |-> RollNos, bodies |-> Bodies, nets |-> BodyResults,
                depth |-> 1]

\* one makeRequest call from http.request to the promise being settled
CallMakeRequest(payload, net) ==
    \E ex \in {Exchange(net, payload, remote)} :
        /\ remote' = ex.rem
        /\ last' = [op |-> "makeRequest", route |-> "none", status |-> 0,
                    payload |-> payload, raw |-> ex.raw,
                    ret |-> MakeRequest(ex.raw)]
        /\ UNCHANGED <<fallback, cl, prev, scope>>

RequestNext ==
    \E payload \in Payloads, net \in scope.nets : CallMakeRequest(payload, net)

RequestSpec == RequestInit /\ [][RequestNext]_vars

----------------------------------------------------------------------------
(* Facade methods called while others are still waiting for the remote
   store. A call runs to its await, its request ends (or never does), and
   the promise resumes it. *)

\* the callers that can have a request under way at once
Clients == {"c1", "c2"}

\* Faulty variant: createStudent puts the record in the Fallback Store
\* before the remote store has answered
BeforeAwaitWritesAhead(op, rollNo, arg, fb) ==
    [fb |-> IF op = "createStudent"
            THEN MapSet(fb, rollNo, Spread(arg, [enrollmentDate |-> Today]))
            ELSE fb,
     payload |->
        CASE op \in {"getStudent", "studentExists"} -> GetPayload(rollNo)
          [] op \in {"getAllStudents", "getStudentCount"} -> GetAllPayload
          [] op = "createStudent" -> PutPayload(arg, Today)
          [] op = "updateStudent" -> UpdatePayload(rollNo, arg)
          [] op = "deleteStudent" -> RemovePayload(rollNo)]

\* a method up to its await: the one payload it hands to makeRequest, and
\* the Fallback Store as it leaves it
BeforeAwait(op, rollNo, arg, fb) ==
    [fb |-> fb,
     payload |->
        CASE op \in {"getStudent", "studentExists"} -> GetPayload(rollNo)
          [] op \in {"getAllStudents", "getStudentCount"} -> GetAllPayload
          [] op = "createStudent" -> PutPayload(arg, Today)
          [] op = "updateStudent" -> UpdatePayload(rollNo, arg)
          [] op = "deleteStudent" -> RemovePayload(rollNo)]

\* Faulty variant: getStudentCount answers with the size of the Fallback
\* Store instead of the length of what getAllStudents returns
AfterAwaitCountsFallback(op, rollNo, arg, response, fb) ==
    CASE op = "getStudent" -> GetStudentAfter(response, fb, rollNo)
      [] op = "getAllStudents" -> GetAllStudentsAfter(response, fb)
      [] op = "createStudent" -> CreateStudentAfter(response, fb, arg, Today)
      [] op = "updateStudent" -> UpdateStudentAfter(response, fb, rollNo, arg)
      [] op = "deleteStudent" -> DeleteStudentAfter(response, fb, rollNo)
      [] op = "studentExists" ->
           LET got == GetStudentAfter(response, fb, rollNo)
           IN [ret |-> IF StudentExists(got.ret) THEN True ELSE False,
               fb |-> got.fb]
      [] op = "getStudentCount" -> [ret |-> Number(Len(fb)), fb |-> fb]

\* a method from its await to its return
AfterAwait(op, rollNo, arg, response, fb) ==
    CASE op = "getStudent" -> GetStudentAfter(response, fb, rollNo)
      [] op = "getAllStudents" -> GetAllStudentsAfter(response, fb)
      [] op = "createStudent" -> CreateStudentAfter(response, fb, arg, Today)
      [] op = "updateStudent" -> UpdateStudentAfter(response, fb, rollNo, arg)
      [] op = "deleteStudent" -> DeleteStudentAfter(response, fb, rollNo)
      [] op = "studentExists" ->
           LET got == GetStudentAfter(response, fb, rollNo)
           IN [ret |-> IF got.ret = Raised THEN Raised
                       ELSE IF StudentExists(got.ret) THEN True ELSE False,
               fb |-> got.fb]
      [] op = "getStudentCount" ->
           LET got == GetAllStudentsAfter(response, fb)
           IN [ret |-> IF got.ret = Raised THEN Raised
                       ELSE Number(Len(got.ret.items)),
               fb |-> got.fb]

\* a suspended call: where it is, what it was called with, the requests it
\* has issued so far, the response it was resumed with, what it returned
Invocation(pc, op, rollNo, arg, payload, issued, response, ret) ==
    [pc |-> pc, op |-> op, rollNo |-> rollNo, arg |-> arg,
     payload |-> payload, issued |-> issued, response |-> response,
     ret |-> ret]

NotCalled == Invocation("idle", "none", "", None, None, 0, None, None)

\* the calls a caller can make
Calls ==
    {[op |-> op, rollNo |-> r, arg |-> None] :
        op \in {"getStudent", "deleteStudent", "studentExists"},
        r \in RollNos}
    \cup {[op |-> op, rollNo |-> "", arg |-> None] :
        op \in {"getAllStudents", "getStudentCount"}}
    \cup {[op |-> "createStudent", rollNo |-> r,
           arg |-> NewStudent(r, BodyB)] : r \in RollNos}
    \cup {[op |-> "updateStudent", rollNo |-> r, arg |-> UpdA] :
            r \in RollNos}

AsyncInit ==
    /\ fallback = <<>>
    /\ remote \in {EmptyRelation, Preloaded}
    /\ cl = [c \in Clients |-> NotCalled]
    /\ last = NoCall
    /\ prev = NoCall
    /\ scope = [keys |-> {"101"}, bodies |-> {BodyB}, nets |-> Nets,
                depth |-> 1]

\* Faulty variant: resolved promises are resumed one caller at a time, in
\* the order the requests were made
CanResumeInTurn(c, frames) ==
    /\ frames[c].pc = "answered"
    /\ \A d \in DOMAIN frames \ {c} : frames[d].pc \notin {"waiting", "hung"}

\* the promise of c's makeRequest has been resolved: c's method resumes,
\* whatever the other requests are doing
CanResume(c, frames) == frames[c].pc = "answered"

\* the method runs up to await this.makeRequest(...)
Invoke(c, call) ==
    /\ cl[c].pc = "idle"
    /\ \E before \in {BeforeAwait(call.op, call.rollNo, call.arg, fallback)} :
        /\ fallback' = before.fb
        /\ cl' = [cl EXCEPT ![c] =
                    Invocation("waiting", call.op, call.rollNo, call.arg,
                               before.payload, cl[c].issued + 1, None, None)]
    /\ UNCHANGED <<remote, last, prev, scope>>

\* the exchange ends and makeRequest's promise resolves
RequestEnds(c, net) ==
    /\ cl[c].pc = "waiting"
    /\ \E ex \in {Exchange(net, cl[c].payload, remote)} :
        /\ remote' = ex.rem
        /\ cl' = [cl EXCEPT ![c] =
                    [@ EXCEPT !.pc = "answered", !.payload = None,
                              !.response = MakeRequest(ex.raw)]]
    /\ UNCHANGED <<fallback, last, prev, scope>>

\* the connection stays open and silent for good: no end, no error
RequestHangs(c) ==
    /\ cl[c].pc = "waiting"
    /\ cl' = [cl EXCEPT ![c] = [@ EXCEPT !.pc = "hung"]]
    /\ UNCHANGED <<fallback, remote, last, prev, scope>>

\* the method resumes after its await and returns
Resume(c) ==
    /\ CanResume(c, cl)
    /\ \E after \in {AfterAwait(cl[c].op, cl[c].rollNo, cl[c].arg,
                                cl[c].response, fallback)} :
        /\ fallback' = after.fb
        /\ cl' = [cl EXCEPT ![c] =
                    [@ EXCEPT !.pc = "returned", !.response = None,
                              !.ret = after.ret]]
    /\ UNCHANGED <<remote, last, prev, scope>>

AsyncNext ==
    \/ \E c \in Clients, call \in Calls :
           /\ call.rollNo \in scope.keys \cup {""}
           /\ Invoke(c, call)
    \/ \E c \in Clients, net \in scope.nets : RequestEnds(c, net)
    \/ \E c \in Clients : RequestHangs(c)
    \/ \E c \in Clients : Resume(c)

\* the event loop runs every continuation whose promise has been resolved
AsyncFairness == \A c \in Clients : WF_vars(Resume(c))

AsyncSpec == AsyncInit /\ [][AsyncNext]_vars /\ AsyncFairness

\* The same, with the callers free to address different roll numbers
AsyncKeysInit ==
    /\ fallback = <<>>
    /\ remote \in {EmptyRelation, Preloaded}
    /\ cl = [c \in Clients |-> NotCalled]
    /\ last = NoCall
    /\ prev = NoCall
    /\ scope = [keys |-> RollNos, bodies |-> {BodyB}, nets |-> Nets,
                depth |-> 1]

AsyncKeysSpec == AsyncKeysInit /\ [][AsyncNext]_vars /\ AsyncFairness

----------------------------------------------------------------------------
(* initializeSampleData, which createServer starts and does not await: it
   runs from one await to the next while a client's facade call is in
   flight. *)

Boot == "boot"

\* the record initializeSampleData creates, and the update it then makes
SampleStudent == NewStudent("101", BodyA)
SampleUpdates == UpdA

\* createServer has returned: initializeSampleData is suspended at its
\* await of getStudent("101"), and no request has been handled yet
BootInit ==
    /\ fallback = <<>>
    /\ remote \in {EmptyRelation, Preloaded}
    /\ cl = (Boot :> Invocation("waiting", "getStudent", "101", None,
                                GetPayload("101"), 1, None, None))
             @@ ("c1" :> NotCalled)
    /\ last = NoCall
    /\ prev = NoCall
    /\ scope = [keys |-> {"101"}, bodies |-> {BodyB}, nets |-> Nets,
                depth |-> 1]

\* getStudent resumes; if (!existingStudent), createStudent runs up to its
\* await, otherwise initializeSampleData is done
BootAfterCheck ==
    /\ cl[Boot].op = "getStudent"
    /\ cl[Boot].pc = "answered"
    /\ \E after \in {GetStudentAfter(cl[Boot].response, fallback, "101")} :
        /\ fallback' = after.fb
        /\ cl' = [cl EXCEPT ![Boot] =
                    IF Falsy(after.ret)
                    THEN Invocation("waiting", "createStudent", "101",
                                    SampleStudent,
                                    PutPayload(SampleStudent, Today), 1,
                                    None, None)
                    ELSE Invocation("returned", "getStudent", "101", None,
                                    None, 1, None, after.ret)]
    /\ UNCHANGED <<remote, last, prev, scope>>

\* createStudent resumes and updateStudent runs up to its await
BootAfterCreate ==
    /\ cl[Boot].op = "createStudent"
    /\ cl[Boot].pc = "answered"
    /\ \E after \in {CreateStudentAfter(cl[Boot].response, fallback,
                                        SampleStudent, Today)} :
        /\ fallback' = after.fb
        /\ cl' = [cl EXCEPT ![Boot] =
                    Invocation("waiting", "updateStudent", "101",
                               SampleUpdates,
                               UpdatePayload("101", SampleUpdates), 1,
                               None, None)]
    /\ UNCHANGED <<remote, last, prev, scope>>

\* updateStudent resumes and initializeSampleData is done
BootAfterUpdate ==
    /\ cl[Boot].op = "updateStudent"
    /\ cl[Boot].pc = "answered"
    /\ \E after \in {UpdateStudentAfter(cl[Boot].response, fallback, "101",
                                        SampleUpdates)} :
        /\ fallback' = after.fb
        /\ cl' = [cl EXCEPT ![Boot] =
                    Invocation("returned", "updateStudent", "101",
                               SampleUpdates, None, 1, None, after.ret)]
    /\ UNCHANGED <<remote, last, prev, scope>>

BootNext ==
    \/ \E net \in scope.nets : RequestEnds(Boot, net)
    \/ BootAfterCheck
    \/ BootAfterCreate
    \/ BootAfterUpdate
    \/ \E call \in Calls :
           /\ call.rollNo \in scope.keys \cup {""}
           /\ Invoke("c1", call)
    \/ \E net \in scope.nets : RequestEnds("c1", net)
    \/ Resume("c1")

BootSpec == BootInit /\ [][BootNext]_vars

----------------------------------------------------------------------------
(* Two POST /api/students requests in flight at once. Each handler runs
   from one await to the next without interruption; the remote store takes
   the commands in the order they reach it, and each response resumes its
   handler at a later turn of the event loop. *)


\* a handler's position: pc, the request body, the command it is waiting on,
\* the response makeRequest resolved to, the status answered (0: none yet)
Frame(pc, student, payload, response, status) ==
    [pc |-> pc, student |-> student, payload |-> payload,
     response |-> response, status |-> status]

Idle == Frame("idle", None, None, None, 0)

ConcInit ==
    /\ fallback = <<>>
    /\ remote = EmptyRelation
    /\ cl = [c \in Clients |-> Idle]
    /\ last = NoCall
    /\ prev = <<>>
    /\ scope = [keys |-> {"101"}, bodies |-> Bodies, nets |-> Nets,
                depth |-> 1]

\* the route up to its first await: validation, then studentExists ->
\* getStudent -> makeRequest
PostStart(c, student) ==
    /\ cl[c].pc = "idle"
    /\ cl' = [cl EXCEPT ![c] =
                IF MissingFields(student, CreateRequired) # {}
                THEN Frame("done", student, None, None, 400)
                ELSE Frame("checking", student, GetPayload(student.rollNo),
                           None, 0)]
    /\ UNCHANGED <<fallback, remote, last, prev, scope>>

\* the exchange with the remote store ends and makeRequest's promise resolves
RemoteAnswers(c, net) ==
    /\ cl[c].pc \in {"checking", "creating"}
    /\ \E ex \in {Exchange(net, cl[c].payload, remote)} :
        /\ remote' = ex.rem
        /\ cl' = [cl EXCEPT ![c] =
                    Frame(IF cl[c].pc = "checking" THEN "checked"
                          ELSE "created",
                          cl[c].student, None, MakeRequest(ex.raw), 0)]
        /\ prev' = Append(prev, [c |-> c, cmd |-> cl[c].payload.cmd,
                                 out |-> NetClass(net)])
    /\ UNCHANGED <<fallback, last, scope>>

\* getStudent resumes, studentExists answers, and the route either answers
\* 409 or goes on into createStudent up to its await
PostAfterCheck(c) ==
    /\ cl[c].pc = "checked"
    /\ \E after \in {GetStudentAfter(cl[c].response, fallback,
                                     cl[c].student.rollNo)} :
        /\ fallback' = after.fb
        /\ cl' = [cl EXCEPT ![c] =
                    IF StudentExists(after.ret)
                    THEN Frame("done", cl[c].student, None, None, 409)
                    ELSE Frame("creating", cl[c].student,
                               PutPayload(cl[c].student, Today), None, 0)]
    /\ UNCHANGED <<remote, last, prev, scope>>

\* createStudent resumes and the route answers 201 or 500
PostAfterCreate(c) ==
    /\ cl[c].pc = "created"
    /\ \E after \in {CreateStudentAfter(cl[c].response, fallback,
                                        cl[c].student, Today)} :
        /\ fallback' = after.fb
        /\ cl' = [cl EXCEPT ![c] =
                    Frame("done", cl[c].student, None, None,
                          CreatedStatus(after.ret))]
    /\ UNCHANGED <<remote, last, prev, scope>>

ConcNext ==
    \/ \E c \in Clients, r \in scope.keys,
          b \in scope.bodies \cup {Blank(BodyA)} :
           PostStart(c, NewStudent(r, b))
    \/ \E c \in Clients, net \in scope.nets : RemoteAnswers(c, net)
    \/ \E c \in Clients : PostAfterCheck(c)
    \/ \E c \in Clients : PostAfterCreate(c)

\* every remote call ends, and every resolved promise resumes its handler
ConcFairness ==
    \A c \in Clients :
        /\ WF_vars(\E net \in Nets : RemoteAnswers(c, net))
        /\ WF_vars(PostAfterCheck(c))
        /\ WF_vars(PostAfterCreate(c))

ConcSpec == ConcInit /\ [][ConcNext]_vars /\ ConcFairness

----------------------------------------------------------------------------
(* The enrollment form (StudentEnrollmentForm). Its React state is one
   record; a handler runs from an event to its await, and from the answer to
   its end, and the inputs and buttons accept events only while rendered
   enabled. What the server answers is left open. *)

initialFormState ==
    [rollNo |-> "", fullName |-> "", class |-> "", birthDate |-> "",
     address |-> "", enrollmentDate |-> ""]

\* the component's state: the useState cells, the fetch awaited by the
\* handler started last (None if there is none), the number of fetches not
\* yet settled, the record loaded for editing, and the handler that finished
\* last
FormOf(formData, mode, isLoading, rollNoDisabled, fieldsDisabled, buttonsState, pending, inFlight, loaded, done) ==
    [formData |-> formData, mode |-> mode, isLoading |-> isLoading,
     rollNoDisabled |-> rollNoDisabled, fieldsDisabled |-> fieldsDisabled,
     buttonsState |-> buttonsState, pending |-> pending,
     inFlight |-> inFlight, loaded |-> loaded, done |-> done]

Buttons(save, update, reset) ==
    [save |-> save, update |-> update, reset |-> reset]

\* the useState initial values
Mounted ==
    FormOf(initialFormState, "new", FALSE, FALSE, TRUE,
           Buttons(FALSE, FALSE, TRUE), None, 0, None, "mount")

\* Faulty variant: the roll number field stays editable while a request is
\* outstanding
RollNoFieldIgnoresLoading(f) == f.rollNoDisabled

\* the disabled attributes as rendered
RollNoFieldDisabled(f) == f.rollNoDisabled \/ f.isLoading
DataFieldsDisabled(f) == f.fieldsDisabled \/ f.isLoading
SaveEnabled(f) == f.buttonsState.save /\ ~f.isLoading
UpdateEnabled(f) == f.buttonsState.update /\ ~f.isLoading
ResetEnabled(f) == f.buttonsState.reset /\ ~f.isLoading

resetForm(f) ==
    [f EXCEPT !.formData = initialFormState, !.mode = "new",
              !.rollNoDisabled = FALSE, !.fieldsDisabled = TRUE,
              !.buttonsState = Buttons(FALSE, FALSE, TRUE),
              !.loaded = None, !.done = "reset"]

\* the first required field that is empty after trim, or "" if there is none
FormRequired(mode) ==
    IF mode = "new"
    THEN <<"rollNo", "fullName", "class", "birthDate", "address">>
    ELSE <<"fullName", "class", "birthDate", "address", "enrollmentDate">>

validateForm(f) ==
    \A i \in DOMAIN FormRequired(f.mode) :
        Trim(f.formData[FormRequired(f.mode)[i]]) # ""

\* Faulty variant: clearing the roll number disables the data fields but
\* leaves the buttons as they were
handleRollNoChangeKeepsButtons(f, value) ==
    LET typed == [f.formData EXCEPT !.rollNo = value]
    IN IF Trim(value) = ""
       THEN [f EXCEPT !.formData = typed, !.mode = "new",
                      !.fieldsDisabled = TRUE, !.done = "blank"]
       ELSE [f EXCEPT !.formData = typed, !.isLoading = TRUE,
                      !.pending = [kind |-> "lookup", rollNo |-> value],
                      !.inFlight = @ + 1,
                      !.done = "typing"]

\* handleRollNoChange up to its return (blank value) or its await
handleRollNoChange(f, value) ==
    LET typed == [f.formData EXCEPT !.rollNo = value]
    IN IF Trim(value) = ""
       THEN [f EXCEPT !.formData = typed, !.mode = "new",
                      !.fieldsDisabled = TRUE,
                      !.buttonsState = Buttons(FALSE, FALSE, TRUE),
                      !.done = "blank"]
       ELSE [f EXCEPT !.formData = typed, !.isLoading = TRUE,
                      !.pending = [kind |-> "lookup", rollNo |-> value],
                      !.inFlight = @ + 1,
                      !.done = "typing"]

\* Faulty variant: a loaded record leaves Save enabled next to Update
AfterLookupKeepsSave(f, result) ==
    IF result.kind = "json" /\ result.success /\ "student" \in DOMAIN result
    THEN [f EXCEPT !.formData = result.student, !.mode = "edit",
                   !.rollNoDisabled = TRUE, !.fieldsDisabled = FALSE,
                   !.buttonsState = Buttons(TRUE, TRUE, TRUE),
                   !.isLoading = FALSE, !.pending = None, !.inFlight = @ - 1,
                   !.loaded = result.student, !.done = "found"]
    ELSE [f EXCEPT !.mode = "new", !.fieldsDisabled = FALSE,
                   !.buttonsState = Buttons(TRUE, FALSE, TRUE),
                   !.isLoading = FALSE, !.pending = None, !.inFlight = @ - 1,
                   !.done = IF result.kind = "json" THEN "absent"
                            ELSE "failed"]

\* Faulty variant: a loaded record leaves the roll number field editable
AfterLookupLeavesRollNo(f, result) ==
    IF result.kind = "json" /\ result.success /\ "student" \in DOMAIN result
    THEN [f EXCEPT !.formData = result.student, !.mode = "edit",
                   !.fieldsDisabled = FALSE,
                   !.buttonsState = Buttons(FALSE, TRUE, TRUE),
                   !.isLoading = FALSE, !.pending = None, !.inFlight = @ - 1,
                   !.loaded = result.student, !.done = "found"]
    ELSE [f EXCEPT !.mode = "new", !.fieldsDisabled = FALSE,
                   !.buttonsState = Buttons(TRUE, FALSE, TRUE),
                   !.isLoading = FALSE, !.pending = None, !.inFlight = @ - 1,
                   !.done = IF result.kind = "json" THEN "absent"
                            ELSE "failed"]

\* handleRollNoChange from the answer of its fetch to its end; a result of
\* kind "error" is a fetch that rejected or a body that is not JSON
AfterLookup(f, result) ==
    IF result.kind = "json" /\ result.success /\ "student" \in DOMAIN result
    THEN [f EXCEPT !.formData = result.student, !.mode = "edit",
                   !.rollNoDisabled = TRUE, !.fieldsDisabled = FALSE,
                   !.buttonsState = Buttons(FALSE, TRUE, TRUE),
                   !.isLoading = FALSE, !.pending = None, !.inFlight = @ - 1,
                   !.loaded = result.student, !.done = "found"]
    ELSE IF result.kind = "json"
    THEN [f EXCEPT !.mode = "new", !.rollNoDisabled = FALSE,
                   !.fieldsDisabled = FALSE,
                   !.buttonsState = Buttons(TRUE, FALSE, TRUE),
                   !.isLoading = FALSE, !.pending = None, !.inFlight = @ - 1, !.done = "absent"]
    ELSE [f EXCEPT !.mode = "new", !.fieldsDisabled = FALSE,
                   !.buttonsState = Buttons(TRUE, FALSE, TRUE),
                   !.isLoading = FALSE, !.pending = None, !.inFlight = @ - 1, !.done = "failed"]

\* handleSave and handleUpdate up to their await
handleSave(f) ==
    IF ~validateForm(f) THEN [f EXCEPT !.done = "invalid"]
    ELSE [f EXCEPT !.isLoading = TRUE, !.done = "saving",
                   !.inFlight = @ + 1,
                   !.pending =
                      [kind |-> "save",
                       student |-> [x \in CreateRequired |-> f.formData[x]]]]

handleUpdate(f) ==
    IF ~validateForm(f) THEN [f EXCEPT !.done = "invalid"]
    ELSE [f EXCEPT !.isLoading = TRUE, !.done = "updating",
                   !.inFlight = @ + 1,
                   !.pending =
                      [kind |-> "update", rollNo |-> f.formData.rollNo,
                       student |-> [x \in UpdateRequired |-> f.formData[x]]]]

\* handleSave and handleUpdate from the answer to their end
AfterSubmit(f, result) ==
    IF result.kind = "json" /\ result.success
    THEN [resetForm(f) EXCEPT !.isLoading = FALSE, !.pending = None, !.inFlight = @ - 1,
                              !.done = "submitted"]
    ELSE [f EXCEPT !.isLoading = FALSE, !.pending = None, !.inFlight = @ - 1,
                   !.done = "refused"]

handleInputChange(f, field, value) ==
    [f EXCEPT !.formData = [@ EXCEPT ![field] = value], !.done = "input"]

\* what can be typed into the roll number field and into each data field
RollNoInputs == {"", " ", "101"}
FieldInputs ==
    [fullName |-> {"", "Ananya Sharma"}, class |-> {"", "10A"},
     birthDate |-> {"", "2007-09-15"}, address |-> {"", "Pune, MH"},
     enrollmentDate |-> {"", SampleDate}]

\* what the server can answer to GET /api/students/:rollNo: a record (its
\* rollNo need not be the one asked for), a refusal, or nothing readable
LookupResults(rollNo) ==
    {[kind |-> "json", success |-> TRUE,
      student |-> Spread(NewStudent(r, BodyB), [enrollmentDate |-> EarlierDate])] :
         r \in {rollNo, "999"}}
    \cup {[kind |-> "json", success |-> FALSE], [kind |-> "error"]}

\* ... and to a POST or PUT
SubmitResults ==
    {[kind |-> "json", success |-> TRUE], [kind |-> "json", success |-> FALSE],
     [kind |-> "error"]}

Pending(f, kind) == "kind" \in DOMAIN f.pending /\ f.pending.kind = kind

FormInit ==
    /\ fallback = <<>>
    /\ remote = EmptyRelation
    /\ cl = resetForm(Mounted)
    /\ last = NoCall
    /\ prev = NoCall
    /\ scope = [keys |-> {"101"}, bodies |-> {BodyB}, nets |-> Nets,
                depth |-> 1]

FormStep(f) ==
    /\ cl' = f
    /\ UNCHANGED <<fallback, remote, last, prev, scope>>

\* onChange of the roll number input
TypeRollNo(value) ==
    /\ ~RollNoFieldDisabled(cl)
    /\ value # cl.formData.rollNo
    /\ FormStep(handleRollNoChange(cl, value))

\* the lookup's fetch settles
LookupAnswered(result) ==
    /\ Pending(cl, "lookup")
    /\ FormStep(AfterLookup(cl, result))

\* onChange of a data input; the enrollment date input exists in edit mode
TypeField(field, value) ==
    /\ ~DataFieldsDisabled(cl)
    /\ field = "enrollmentDate" => cl.mode = "edit"
    /\ value # cl.formData[field]
    /\ FormStep(handleInputChange(cl, field, value))

ClickSave ==
    /\ SaveEnabled(cl)
    /\ FormStep(handleSave(cl))

ClickUpdate ==
    /\ UpdateEnabled(cl)
    /\ FormStep(handleUpdate(cl))

\* the fetch of a Save or an Update settles
SubmitAnswered(result) ==
    /\ Pending(cl, "save") \/ Pending(cl, "update")
    /\ FormStep(AfterSubmit(cl, result))

ClickReset ==
    /\ ResetEnabled(cl)
    /\ FormStep(resetForm(cl))

FormNext ==
    \/ \E value \in RollNoInputs : TypeRollNo(value)
    \/ \E result \in LookupResults(cl.formData.rollNo) : LookupAnswered(result)
    \/ \E field \in DOMAIN FieldInputs :
           \E value \in FieldInputs[field] : TypeField(field, value)
    \/ ClickSave
    \/ ClickUpdate
    \/ \E result \in SubmitResults : SubmitAnswered(result)
    \/ ClickReset

FormSpec == FormInit /\ [][FormNext]_vars

----------------------------------------------------------------------------
(* Properties *)

StudentFields ==
    {"rollNo", "fullName", "class", "birthDate", "address", "enrollmentDate"}

\* the call `last` was made right after the call `prev`, on the same rollNo
Pair(opA, opB) ==
    /\ prev.op = opA
    /\ last.op = opB
    /\ last.rollNo = prev.rollNo

\* the call was answered out of the Fallback Store: the response was
\* fallback-indicated, or its payload made the method's catch block run
FromFallback(e) == e.out \in {"fallback", "malformed"}

Served(e) == e.out = "served"

\* the record createStudent(s) makes of s on the day of the call
Created(s) == Spread(s, [enrollmentDate |-> Today])

\* C1 as stated: for every classification of the remote response on each
\* call, if createStudent(s) returns a non-null record then an immediately
\* following getStudent(s.rollNo) returns s with the creation day as
\* enrollmentDate.
C1_CreateThenGet_AnyResponse ==
    (Pair("createStudent", "getStudent") /\ prev.ret # Null)
        => last.ret = Created(prev.arg)

\* C1 as amended: if createStudent(s) returns a non-null record, an
\* immediately following getStudent(s.rollNo) returns s with the creation day
\* as enrollmentDate provided the get is answered out of the Fallback Store,
\* or both the create and the get were served by the remote store.
C1_CreateThenGet_SameStore ==
    (/\ Pair("createStudent", "getStudent")
     /\ prev.ret # Null
     /\ (FromFallback(last) \/ (Served(prev) /\ Served(last))))
        => last.ret = Created(prev.arg)

C1_Witness ==
    /\ Pair("createStudent", "getStudent")
    /\ prev.ret # Null
    /\ Served(prev)
    /\ Served(last)
    /\ last.ret = Created(prev.arg)

\* C2 as stated: after deleteStudent(r) returns true, an immediately
\* following getStudent(r) returns null for every classification of the
\* remote response on the get.
C2_DeleteThenGet_AnyResponse ==
    (Pair("deleteStudent", "getStudent") /\ prev.ret = True)
        => last.ret = Null

\* C2 as amended: after deleteStudent(r) returns true, an immediately
\* following getStudent(r) returns null provided the delete was served by the
\* remote store or the get is not served by the remote store.
C2_DeleteThenGet_SameStore ==
    (/\ Pair("deleteStudent", "getStudent")
     /\ prev.ret = True
     /\ (Served(prev) \/ ~Served(last)))
        => last.ret = Null

C2_Witness ==
    /\ Pair("deleteStudent", "getStudent")
    /\ prev.ret = True
    /\ FromFallback(prev)
    /\ FromFallback(last)
    /\ last.ret = Null

\* C3: updateStudent(r, updates) on a rollNo r present in neither store
\* returns null, PUT answers 404, and r is still in neither store afterwards,
\* for every classification of the remote response.
C3_UpdateAbsent_ReturnsNull ==
    (last.op = "updateStudent" /\ ~last.hadF /\ ~last.hadR)
        => /\ last.ret = Null
           /\ last.status = 404
           /\ ~MapHas(fallback, last.rollNo)
           /\ remote[last.rollNo] = None

\* the existence check of the POST request whose createStudent call is `last`
\* was answered by a store that held a record for the rollNo
CheckReachedHolder ==
    \/ Served(prev) /\ last.hadR
    \/ FromFallback(prev) /\ last.hadF

\* C4 as stated: whenever a record for r exists in the remote store or in the
\* Fallback Store, a POST create request for r is answered 409, for every
\* classification of the remote response on the request's two store calls.
C4_PostExisting_Always409 ==
    (last.route = "POST" /\ last.op # "none" /\ (last.hadF \/ last.hadR))
        => last.status = 409

\* C4 as amended: a POST create request for r whose existence check is
\* answered by a store that holds r (the remote store when the check is
\* served, the Fallback Store when the check falls back) never reaches
\* createStudent and is answered 409; a request answered 409 leaves the remote
\* store unchanged and leaves the Fallback Store unchanged except that a
\* served check overwrites the entry for r with the remote store's record.
C4_PostExisting_ReachedStore ==
    /\ []((last.route = "POST" /\ last.op = "createStudent")
            => ~CheckReachedHolder)
    /\ [][(last'.route = "POST" /\ last'.status = 409)
            => /\ remote' = remote
               /\ \/ fallback' = fallback
                  \/ /\ Served(last')
                     /\ fallback' = MapSet(fallback, last'.rollNo,
                                           FromWire(remote[last'.rollNo]))]_vars

C4_Witness ==
    /\ last.route = "POST"
    /\ last.status = 409
    /\ Served(last)
    /\ last.hadF
    /\ MapGet(fallback, last.rollNo) = FromWire(remote[last.rollNo])

\* C5: while every remote call is fallback-indicated, createStudent(s)
\* returns s with the creation day, a following getStudent(s.rollNo) returns
\* that same record, the record is the Fallback Store's entry and not in the
\* remote store, and the remote store never changes.
C5_OutageRoundTrip ==
    /\ [](last.op = "createStudent" => last.ret = Created(last.arg))
    /\ [](Pair("createStudent", "getStudent")
            => /\ last.ret = prev.ret
               /\ last.ret = Created(prev.arg)
               /\ MapHas(fallback, last.rollNo)
               /\ MapGet(fallback, last.rollNo) = last.ret
               /\ remote[last.rollNo] # PutRecord(prev.arg, Today))
    /\ [][remote' = remote]_vars

C5_Witness ==
    /\ Pair("createStudent", "getStudent")
    /\ last.out = "fallback"
    /\ prev.out = "fallback"
    /\ last.ret = Created(prev.arg)
    /\ remote = Preloaded

C7_UpdateThenGet_AnyResponse ==
    (/\ Pair("updateStudent", "getStudent")
     /\ prev.afterCreate
     /\ prev.ret # Null)
        => last.ret = Spread([rollNo |-> last.rollNo], prev.arg)

\* C7 as amended: after createStudent for r followed by updateStudent(r,
\* updates) that returns a non-null record, getStudent(r) returns
\* {rollNo: r, ...updates} when the get is answered out of the Fallback
\* Store; when both the update and the get are served by the remote store it
\* returns {...updates, rollNo: r}. Either way the enrollmentDate assigned at
\* creation is replaced by updates.enrollmentDate.
C7_UpdateThenGet_SameStore ==
    (/\ Pair("updateStudent", "getStudent")
     /\ prev.afterCreate
     /\ prev.ret # Null)
        => /\ FromFallback(last)
                => last.ret = Spread([rollNo |-> last.rollNo], prev.arg)
           /\ (Served(prev) /\ Served(last))
                => last.ret = Spread(prev.arg, [rollNo |-> last.rollNo])

C7_Witness ==
    /\ Pair("updateStudent", "getStudent")
    /\ prev.afterCreate
    /\ prev.out = "fallback"
    /\ last.out = "fallback"
    /\ last.rollNo = "101"
    /\ last.ret = Spread([rollNo |-> "101"], UpdA)
    /\ last.ret.enrollmentDate = SampleDate

\* C8: getAllStudents always returns an array of Student records, never null
\* or undefined, whatever the remote response; GET /api/students answers 200;
\* when both stores are empty the array is empty.
C8_GetAllReturnsArray ==
    last.op = "getAllStudents"
        => /\ "items" \in DOMAIN last.ret
           /\ \A i \in DOMAIN last.ret.items :
                  DOMAIN last.ret.items[i] = StudentFields
           /\ last.status = 200
           /\ (~last.hadF /\ ~last.hadR) => last.ret = Array(<<>>)

C8_Witness ==
    /\ last.op = "getAllStudents"
    /\ ~last.hadF
    /\ ~last.hadR
    /\ last.out = "refused"
    /\ last.ret = Array(<<>>)

\* the roll numbers a call addressed
Addressed(e) == IF e.op = "getAllStudents" THEN RollNos ELSE {e.rollNo}

BothHold(r) == MapHas(fallback, r) /\ remote[r] # None

SubmittedRecords ==
    {Created(cl[c].student) : c \in {d \in Clients : cl[d].pc # "idle"}}

\* C9: two POST create requests for the same new rollNo, interleaved in any
\* way, are both answered with an HTTP status once their remote calls end,
\* and the record each store holds for the rollNo is at every moment the
\* whole record of one of the requests, never fields of both.
C9_ConcurrentPosts ==
    /\ \A c \in Clients :
           (cl[c].pc # "idle")
               ~> (cl[c].pc = "done" /\ cl[c].status \in {201, 400, 409, 500})
    /\ [](\A r \in scope.keys :
            /\ MapHas(fallback, r) => MapGet(fallback, r) \in SubmittedRecords
            /\ remote[r] # None => FromWire(remote[r]) \in SubmittedRecords)

C9_Witness ==
    /\ \A c \in Clients : cl[c].pc = "done" /\ cl[c].status = 201
    /\ cl["c1"].student # cl["c2"].student
    /\ MapGet(fallback, "101") = Created(cl["c1"].student)
    /\ FromWire(remote["101"]) = Created(cl["c2"].student)

FacadeOps ==
    {"getStudent", "getAllStudents", "createStudent", "updateStudent",
     "deleteStudent", "studentExists", "getStudentCount"}

\* C11: every facade method completes by returning a value, never by
\* raising, however the exchange with the remote store ended (transport
\* error, HTML page, unparseable body, malformed data or message, a parsed
\* answer with no message field).
C11_FacadeNeverRaises ==
    last.op \in FacadeOps => last.ret # Raised

C11_Witness ==
    /\ last.op = "studentExists"
    /\ last.out = "malformed"
    /\ last.hadF
    /\ last.ret = True

\* C12: makeRequest never rejects. A transport error, a body containing the
\* HTML document marker (even one that is valid JSON) and a body that does
\* not parse each resolve to {fallback: true}; every other body resolves to
\* the parsed object unchanged.
C12_MakeRequestClassifies ==
    last.op = "makeRequest"
        => /\ last.ret # Raised
           /\ last.raw.error => last.ret = FallbackSentinel
           /\ (~last.raw.error /\ last.raw.html)
                  => last.ret = FallbackSentinel
           /\ (~last.raw.error /\ ~last.raw.json)
                  => last.ret = FallbackSentinel
           /\ (~last.raw.error /\ ~last.raw.html /\ last.raw.json)
                  => last.ret = last.raw.obj

C12_Witness ==
    /\ last.op = "makeRequest"
    /\ ~last.raw.error
    /\ last.raw.html
    /\ last.raw.json
    /\ last.ret = FallbackSentinel

\* C13: a request whose remote call is fallback-indicated (transport error,
\* HTML page, unparseable body) is never answered 500, on any of the
\* /api/students routes: the answer is 200, 201, 400, 404 or 409.
C13_OutageNever500 ==
    (last.route # "none" /\ (last.op # "none" => last.out = "fallback"))
        => last.status \in {200, 201, 400, 404, 409}

C13_Witness ==
    /\ last.route = "POST"
    /\ last.op = "createStudent"
    /\ last.out = "fallback"
    /\ prev.out = "fallback"
    /\ last.status = 201

\* C14: the record updateStudent(r, updates) returns, and the record the
\* Fallback Store holds for r afterwards, have rollNo equal to r, also when
\* the updates object carries a rollNo of its own.
C14_RollNoImmutable ==
    (last.op = "updateStudent" /\ last.ret # Null)
        => /\ last.ret.rollNo = last.rollNo
           /\ MapHas(fallback, last.rollNo)
                  => MapGet(fallback, last.rollNo).rollNo = last.rollNo

\* C15: deleteStudent returns exactly true or exactly false, whichever store
\* served it and whatever the remote store answered.
C15_DeleteReturnsBoolean ==
    last.op = "deleteStudent" => last.ret \in {True, False}

\* every required field is there and is not blank
Complete(obj, requiredFields) ==
    \A f \in requiredFields :
        f \in DOMAIN obj /\ obj[f] \notin {"", " ", "  "}

\* C16: a POST or PUT request with a required field missing or blank is
\* answered 400 without any facade call: createStudent and updateStudent are
\* only ever called by the routes with complete bodies, and a request
\* answered 400 leaves both stores as they were.
C16_InvalidBodyRejected ==
    /\ []((last.route \in {"POST", "PUT"} /\ last.op = "none")
            => last.status = 400)
    /\ []((last.route = "POST" /\ last.op = "createStudent")
            => Complete(last.arg, CreateRequired))
    /\ []((last.route = "PUT" /\ last.op = "updateStudent")
            => Complete(last.arg, UpdateRequired))
    /\ [][last'.status = 400
            => (fallback' = fallback /\ remote' = remote)]_vars

C16_Witness ==
    /\ last.route = "PUT"
    /\ last.status = 400
    /\ last.op = "none"
    /\ "address" \notin DOMAIN last.arg
    /\ fallback # <<>>
    /\ remote # EmptyRelation

\* C17: a facade call issues at most one remote request, so it has at most
\* one outstanding, and the Fallback Store changes only in the step in which
\* a call resumes after its request has ended.
C17_OneRequestThenStore ==
    /\ [](\A c \in Clients :
            /\ cl[c].issued <= 1
            /\ cl[c].pc \in {"waiting", "hung"} => cl[c].issued = 1
            /\ cl[c].payload # None => cl[c].pc \in {"waiting", "hung"})
    /\ [][fallback' # fallback
            => \E c \in Clients :
                   /\ cl[c].pc = "answered"
                   /\ cl'[c].pc = "returned"]_vars

C17_Witness ==
    /\ cl["c1"].op = "createStudent"
    /\ cl["c1"].pc = "returned"
    /\ cl["c1"].issued = 1
    /\ MapHas(fallback, "101")
    /\ cl["c2"].pc = "waiting"

\* C18: a request that never completes blocks only the call that issued it;
\* any other call whose own request has ended resumes and returns.
C18_HungBlocksOnlyCaller ==
    \A c \in Clients :
        (cl[c].pc = "answered") ~> (cl[c].pc = "returned" /\ cl[c].ret # None)

C18_Witness ==
    /\ cl["c1"].pc = "hung"
    /\ cl["c2"].pc = "returned"
    /\ cl["c2"].op = "updateStudent"
    /\ cl["c2"].ret # Null

\* C19: when a roll-number lookup has completed and the server reported the
\* student, the form is in edit mode with the student's data loaded, Update
\* and Reset enabled, Save disabled; when it reported no student, the form
\* is in new mode with the data fields, Save and Reset enabled and Update
\* disabled; a blank roll number issues no lookup and leaves the data
\* fields, Save and Update disabled.
C19_LookupSetsMode ==
    /\ cl.done = "found"
          => /\ cl.mode = "edit"
             /\ cl.formData = cl.loaded
             /\ UpdateEnabled(cl) /\ ResetEnabled(cl) /\ ~SaveEnabled(cl)
    /\ cl.done = "absent"
          => /\ cl.mode = "new"
             /\ ~DataFieldsDisabled(cl)
             /\ SaveEnabled(cl) /\ ResetEnabled(cl) /\ ~UpdateEnabled(cl)
    /\ cl.done = "blank"
          => /\ cl.pending = None /\ ~cl.isLoading
             /\ DataFieldsDisabled(cl)
             /\ ~SaveEnabled(cl) /\ ~UpdateEnabled(cl)

C19_Witness ==
    /\ cl.done = "found"
    /\ cl.mode = "edit"
    /\ cl.formData.fullName = "Ravi Kumar"
    /\ UpdateEnabled(cl)

\* C20: in edit mode the roll number field is disabled and holds the roll
\* number of the loaded record, and an Update request under way carries
\* that roll number.
C20_EditLocksRollNo ==
    /\ cl.mode = "edit"
          => /\ RollNoFieldDisabled(cl)
             /\ cl.loaded # None
             /\ cl.formData.rollNo = cl.loaded.rollNo
    /\ Pending(cl, "update")
          => /\ cl.loaded # None
             /\ cl.pending.rollNo = cl.loaded.rollNo

C20_Witness ==
    /\ Pending(cl, "update")
    /\ cl.mode = "edit"
    /\ cl.pending.rollNo = "101"
    /\ cl.pending.student.fullName = "Ananya Sharma"

\* C21: while a lookup, save or update request of the form is outstanding,
\* isLoading is set and the roll number field, every data field and the
\* three buttons are disabled; the form never has two requests in flight,
\* and the lookup in flight was issued for the roll number the form shows,
\* so its response is applied to that roll number's form.
C21_NoRaceInForm ==
    /\ cl.inFlight <= 1
    /\ cl.inFlight = 1 <=> cl.pending # None
    /\ cl.inFlight = 1 => cl.isLoading
    /\ cl.isLoading
          => /\ RollNoFieldDisabled(cl)
             /\ DataFieldsDisabled(cl)
             /\ ~SaveEnabled(cl)
             /\ ~UpdateEnabled(cl)
             /\ ~ResetEnabled(cl)
    /\ Pending(cl, "lookup") => cl.pending.rollNo = cl.formData.rollNo

C21_Witness ==
    /\ Pending(cl, "lookup")
    /\ cl.inFlight = 1
    /\ cl.isLoading
    /\ cl.pending.rollNo = "101"
    /\ cl.formData.rollNo = "101"
    /\ cl.buttonsState.reset
    /\ ~ResetEnabled(cl)

\* C22: when the remote response to getStudent(r) is fallback-indicated, the
\* call returns the Fallback Store's entry for r, or null when it has none,
\* and changes neither the Fallback Store nor the remote store.
C22_FallbackGetReadsStore ==
    [][(last'.op = "getStudent" /\ last'.out = "fallback")
          => /\ last'.ret = GetOrNull(fallback, last'.rollNo)
             /\ fallback' = fallback
             /\ remote' = remote]_vars

C22_Witness ==
    /\ last.op = "getStudent"
    /\ last.out = "fallback"
    /\ last.hadF
    /\ last.hadR
    /\ last.ret = MapGet(fallback, last.rollNo)
    /\ last.ret # FromWire(remote[last.rollNo])

\* C23: when the remote response to getStudent(r) carries a parsed record,
\* that record is returned and, when the call returns, the Fallback Store's
\* entry for r is the returned record, written over whatever entry the
\* Fallback Store had for r.
C23_ReadThrough ==
    /\ []((last.op = "getStudent" /\ Served(last) /\ last.hadR)
            => /\ last.ret = FromWire(remote[last.rollNo])
               /\ MapHas(fallback, last.rollNo)
               /\ MapGet(fallback, last.rollNo) = last.ret)
    /\ [][(last'.op = "getStudent" /\ Served(last') /\ last'.hadR)
            => fallback' = MapSet(fallback, last'.rollNo, last'.ret)]_vars

C23_Witness ==
    /\ Pair("createStudent", "getStudent")
    /\ prev.out = "fallback"
    /\ prev.ret # Null
    /\ Served(last)
    /\ last.hadF
    /\ last.hadR
    /\ last.ret # prev.ret
    /\ MapGet(fallback, last.rollNo) = last.ret

\* the answer was a well-formed object with neither a data payload nor the
\* fallback indicator
WithoutData(e) ==
    \/ e.out \in {"refused", "nomessage"}
    \/ e.out = "served" /\ e.op \in {"getStudent", "studentExists"} /\ ~e.hadR

\* C24: when the remote response to getStudent(r) is well-formed but has
\* neither a data payload nor the fallback indicator, getStudent returns
\* null even if the Fallback Store holds an entry for r, and the Fallback
\* Store is left as it was: the entry is neither returned nor removed.
C24_NoDataReturnsNull ==
    [][(last'.op = "getStudent" /\ WithoutData(last'))
          => /\ last'.ret = Null
             /\ fallback' = fallback]_vars

C24_Witness ==
    /\ last.op = "getStudent"
    /\ last.out = "served"
    /\ ~last.hadR
    /\ last.hadF
    /\ last.ret = Null
    /\ MapHas(fallback, last.rollNo)

\* the records a served GET_ALL answers with, as getAllStudents maps them
RemoteRecords ==
    [i \in DOMAIN RelationValues(remote, 1) |->
        FromWire(RelationValues(remote, 1)[i])]

\* C25: getAllStudents returns the Fallback Store's contents, and leaves it
\* as it was, when the remote response is fallback-indicated. When the
\* response carries a collection it returns exactly the remote records and
\* afterwards the Fallback Store holds each of them under its rollNo; every
\* entry whose rollNo is not in the response is unchanged, and no entry is
\* removed.
C25_GetAllSyncs ==
    /\ [][(last'.op = "getAllStudents" /\ last'.out = "fallback")
            => /\ last'.ret = Array(MapValues(fallback))
               /\ fallback' = fallback]_vars
    /\ [][(last'.op = "getAllStudents" /\ Served(last'))
            => LET sent == {RemoteRecords[i].rollNo : i \in DOMAIN RemoteRecords}
               IN /\ last'.ret = Array(RemoteRecords)
                  /\ \A i \in DOMAIN RemoteRecords :
                        /\ MapHas(fallback', RemoteRecords[i].rollNo)
                        /\ MapGet(fallback', RemoteRecords[i].rollNo)
                              = RemoteRecords[i]
                  /\ \A i \in DOMAIN fallback :
                        /\ MapHas(fallback', fallback[i].k)
                        /\ fallback[i].k \notin sent
                              => /\ i \in DOMAIN fallback'
                                 /\ fallback'[i] = fallback[i]
                  /\ \A i \in DOMAIN fallback' :
                        \/ fallback'[i].k \in sent
                        \/ MapHas(fallback, fallback'[i].k)]_vars

C25_Witness ==
    /\ last.op = "getAllStudents"
    /\ Served(last)
    /\ remote["101"] # None
    /\ remote["102"] = None
    /\ last.ret = Array(<<FromWire(remote["101"])>>)
    /\ MapGet(fallback, "101") = FromWire(remote["101"])
    /\ MapHas(fallback, "102")
    /\ fallback[1].k = "102"

\* the remote store was reached and its answer's message contains "success":
\* a PUT it served, or an UPDATE or REMOVE it served for a key it held
ReportsSuccess(e) ==
    Served(e) /\ (e.op = "createStudent" \/ e.hadR)

\* C26: createStudent(s) returns a non-null record exactly when the remote
\* response is fallback-indicated or its message contains "success"; the
\* record is then s with the current day as enrollmentDate and is the
\* Fallback Store's entry for s.rollNo. When the remote store is reached and
\* reports no success, createStudent returns null, the Fallback Store is
\* unchanged and POST answers 500.
C26_CreateAcceptance ==
    [][last'.op = "createStudent"
          => IF last'.out = "fallback" \/ ReportsSuccess(last')
             THEN /\ last'.ret = Created(last'.arg)
                  /\ MapHas(fallback', last'.rollNo)
                  /\ MapGet(fallback', last'.rollNo) = last'.ret
             ELSE /\ last'.ret = Null
                  /\ fallback' = fallback
                  /\ last'.route = "POST" => last'.status = 500]_vars

\* C27: updateStudent(r, updates) returns a non-null record exactly when the
\* remote response is fallback-indicated or its message contains "success";
\* the Fallback Store's entry for r is then the merged record
\* {rollNo: r, ...updates}, which is also returned. When the remote store is
\* reached and reports no success, it returns null and the Fallback Store is
\* unchanged.
C27_UpdateAcceptance ==
    [][last'.op = "updateStudent"
          => IF last'.out = "fallback" \/ ReportsSuccess(last')
             THEN /\ last'.ret = Spread([rollNo |-> last'.rollNo], last'.arg)
                  /\ fallback' = MapSet(fallback, last'.rollNo, last'.ret)
             ELSE /\ last'.ret = Null
                  /\ fallback' = fallback]_vars

\* C28: deleteStudent(r) on a fallback-indicated response removes r from the
\* Fallback Store and returns true exactly when it had an entry for r; when
\* the remote store reports success it returns true and the Fallback Store
\* has no entry for r afterwards; when the remote store is reached and
\* reports no success it returns false and the Fallback Store is unchanged.
C28_DeleteAcceptance ==
    [][last'.op = "deleteStudent"
          => IF last'.out = "fallback"
             THEN /\ last'.ret = MapDeleted(fallback, last'.rollNo)
                  /\ fallback' = MapDelete(fallback, last'.rollNo)
             ELSE IF ReportsSuccess(last')
             THEN /\ last'.ret = True
                  /\ ~MapHas(fallback', last'.rollNo)
             ELSE /\ last'.ret = False
                  /\ fallback' = fallback]_vars

\* C29: studentExists(r) returns true exactly when getStudent(r), resumed in
\* the same state with the same response, returns non-null, and
\* getStudentCount() returns the length of what getAllStudents() returns
\* there; each issues the one request of the read it delegates to (the
\* GET_BY_KEY for r, the GET_ALL) and leaves the Fallback Store as that read
\* leaves it.
C29_DelegatedReads ==
    /\ [](\A c \in Clients :
            /\ cl[c].op = "studentExists"
                  => /\ cl[c].issued = 1
                     /\ cl[c].payload \in {None, GetPayload(cl[c].rollNo)}
            /\ cl[c].op = "getStudentCount"
                  => /\ cl[c].issued = 1
                     /\ cl[c].payload \in {None, GetAllPayload})
    /\ [][\A c \in Clients :
            (cl[c].pc = "answered" /\ cl'[c].pc = "returned")
               => /\ cl[c].op = "studentExists"
                       => LET got == GetStudentAfter(cl[c].response, fallback,
                                                     cl[c].rollNo)
                          IN /\ cl'[c].ret = True <=> got.ret # Null
                             /\ cl'[c].ret = False <=> got.ret = Null
                             /\ fallback' = got.fb
                  /\ cl[c].op = "getStudentCount"
                       => LET got == GetAllStudentsAfter(cl[c].response,
                                                         fallback)
                          IN /\ cl'[c].ret = Number(Len(got.ret.items))
                             /\ fallback' = got.fb]_vars

C29_Witness ==
    /\ cl["c1"].op = "studentExists"
    /\ cl["c1"].pc = "returned"
    /\ cl["c1"].ret = True
    /\ cl["c2"].op = "getStudentCount"
    /\ cl["c2"].pc = "returned"
    /\ cl["c2"].ret = Number(1)
    /\ fallback = <<[k |-> "101", v |-> FromWire(Preloaded["101"])]>>

\* the remote store served the existence checks of both requests before it
\* served the PUT of either, and then served both PUTs
BothCheckedBeforeEitherWrote ==
    /\ Len(prev) = 4
    /\ \A i \in 1..4 : prev[i].out = "served"
    /\ prev[1].cmd = "GET_BY_KEY" /\ prev[2].cmd = "GET_BY_KEY"
    /\ prev[3].cmd = "PUT" /\ prev[4].cmd = "PUT"
    /\ prev[1].c # prev[2].c
    /\ prev[3].c # prev[4].c

\* C30: nothing serializes two POST /api/students requests for the same new
\* rollNo between the existence check and the write. In the interleaving
\* where the remote store serves both existence checks before either PUT,
\* both checks observe "does not exist", no request is answered 409, both
\* are answered 201 once their createStudent returns, and the remote store
\* holds the record written second in place of the one written first.
C30_CreatesNotSerialized ==
    BothCheckedBeforeEitherWrote
        => /\ \A c \in Clients :
                 /\ cl[c].student.rollNo = "101"
                 /\ cl[c].pc \in {"created", "done"}
                 /\ cl[c].pc = "done" => cl[c].status = 201
           /\ remote["101"] = PutRecord(cl[prev[4].c].student, Today)

C30_Witness ==
    /\ BothCheckedBeforeEitherWrote
    /\ prev[3].c = "c1"
    /\ prev[4].c = "c2"
    /\ \A c \in Clients : cl[c].pc = "done" /\ cl[c].status = 201
    /\ cl["c1"].student = NewStudent("101", BodyA)
    /\ cl["c2"].student = NewStudent("101", BodyB)
    /\ FromWire(remote["101"]) = Created(cl["c2"].student)

\* C31: nothing reconciles the remote store with the Fallback Store. The
\* remote store changes only in a createStudent, updateStudent or
\* deleteStudent call that it served, only at that call's rollNo, and to what
\* that call's arguments dictate; the reads never change it, and a record
\* that is only in the Fallback Store reaches the remote store by no other
\* way than a new create or update for its rollNo.
C31_NoReconciliation ==
    [][remote' # remote
          => /\ Served(last')
             /\ last'.op \in {"createStudent", "updateStudent", "deleteStudent"}
             /\ \A r \in RollNos \ {last'.rollNo} : remote'[r] = remote[r]
             /\ remote'[last'.rollNo] =
                   CASE last'.op = "createStudent" ->
                          PutRecord(last'.arg, Today)
                     [] last'.op = "updateStudent" ->
                          Spread(remote[last'.rollNo], UpdateRecord(last'.arg))
                     [] last'.op = "deleteStudent" -> None]_vars

C31_Witness ==
    /\ last.op = "getStudentCount"
    /\ Served(last)
    /\ last.hadF
    /\ ~last.hadR
    /\ MapHas(fallback, "101")
    /\ remote = EmptyRelation
    /\ last.ret = Number(0)

Reads == {"getStudent", "getAllStudents", "studentExists", "getStudentCount"}

\* C32: every entry that the read-through population of getStudent or
\* getAllStudents places in the Fallback Store under a key k is a record
\* whose rollNo is k, also when the remote record has no Roll-No field
\* (which is mapped to the empty string).
C32_ReadThroughKeyed ==
    [][last'.op \in Reads
          => \A i \in DOMAIN fallback' :
                (i \notin DOMAIN fallback \/ fallback'[i] # fallback[i])
                    => fallback'[i].v.rollNo = fallback'[i].k]_vars

SingleKeyOps ==
    {"getStudent", "createStudent", "updateStudent", "deleteStudent"}

\* the Fallback Store fb2 has, for every key but r, what fb1 has
SameButFor(r, fb1, fb2) ==
    \A k \in (RollNos \cup {""}) \ {r} :
        /\ MapHas(fb2, k) <=> MapHas(fb1, k)
        /\ MapHas(fb1, k) => MapGet(fb2, k) = MapGet(fb1, k)

\* C33: getStudent(r), createStudent for rollNo r, updateStudent(r, ..) and
\* deleteStudent(r) leave every Fallback Store entry whose key is not r as
\* it was, however the remote store answered and whatever calls on other
\* roll numbers are in flight; the Fallback Store changes only when a call
\* resumes.
C33_OtherKeysUntouched ==
    /\ [][\A c \in Clients :
            (/\ cl[c].pc = "answered"
             /\ cl'[c].pc = "returned"
             /\ cl[c].op \in SingleKeyOps)
                => SameButFor(cl[c].rollNo, fallback, fallback')]_vars
    /\ [][fallback' # fallback
            => \E c \in Clients :
                  cl[c].pc = "answered" /\ cl'[c].pc = "returned"]_vars

C33_Witness ==
    /\ cl["c1"].op = "deleteStudent"
    /\ cl["c1"].rollNo = "101"
    /\ cl["c1"].pc = "returned"
    /\ cl["c1"].ret = True
    /\ cl["c2"].op = "createStudent"
    /\ cl["c2"].rollNo = "102"
    /\ cl["c2"].pc = "returned"
    /\ ~MapHas(fallback, "101")
    /\ MapHas(fallback, "102")
    /\ MapGet(fallback, "102") = cl["c2"].ret

\* the forms the sample record takes in a store
SampleRecords ==
    {Created(SampleStudent), Spread([rollNo |-> "101"], SampleUpdates)}

\* C34: initializeSampleData never overwrites an existing student "101":
\* no step of it turns a record for "101" that is not the sample record,
\* whether it was in a store from the start or was put there by a client's
\* call in the meantime, into the sample record, in either store.
C34_SampleNeverOverwrites ==
    [][cl'[Boot] # cl[Boot]
          => /\ (/\ MapHas(fallback, "101")
                 /\ MapGet(fallback, "101") \notin SampleRecords)
                    => MapGet(fallback', "101") \notin SampleRecords
             /\ (/\ remote["101"] # None
                 /\ FromWire(remote["101"]) \notin SampleRecords)
                    => FromWire(remote'["101"]) \notin SampleRecords]_vars

\* C35: in every state of the enrollment form, Save and Update are never
\* both enabled; Update enabled implies edit mode, and Save enabled implies
\* new mode with the data fields enabled.
C35_ButtonsFollowMode ==
    /\ ~(SaveEnabled(cl) /\ UpdateEnabled(cl))
    /\ UpdateEnabled(cl) => cl.mode = "edit"
    /\ SaveEnabled(cl) => (cl.mode = "new" /\ ~DataFieldsDisabled(cl))

C35_Witness ==
    /\ SaveEnabled(cl)
    /\ ~UpdateEnabled(cl)
    /\ cl.mode = "new"
    /\ ~DataFieldsDisabled(cl)
    /\ cl.done = "failed"

----------------------------------------------------------------------------
(* The plain in-memory StudentDatabase, run in step with the facade while
   every exchange with the remote store is fallback-indicated *)

\* StudentDatabase.getStudent: this.students.get(rollNo)
StudentDatabaseGetStudent(students, rollNo) ==
    [ret |-> IF MapHas(students, rollNo) THEN MapGet(students, rollNo)
             ELSE Undefined,
     students |-> students]

\* StudentDatabase.getAllStudents: Array.from(this.students.values())
StudentDatabaseGetAllStudents(students) ==
    [ret |-> Array(MapValues(students)), students |-> students]

\* StudentDatabase.createStudent
StudentDatabaseCreateStudent(students, student) ==
    LET newStudent == Spread(student, [enrollmentDate |-> Today])
    IN [ret |-> newStudent,
        students |-> MapSet(students, student.rollNo, newStudent)]

\* StudentDatabase.deleteStudent: this.students.delete(rollNo)
StudentDatabaseDeleteStudent(students, rollNo) ==
    [ret |-> IF MapHas(students, rollNo) THEN True ELSE False,
     students |-> MapDelete(students, rollNo)]

\* StudentDatabase.studentExists: this.students.has(rollNo)
StudentDatabaseStudentExists(students, rollNo) ==
    [ret |-> IF MapHas(students, rollNo) THEN True ELSE False,
     students |-> students]

\* StudentDatabase.getStudentCount: this.students.size
StudentDatabaseGetStudentCount(students) ==
    [ret |-> Number(Len(students)), students |-> students]

\* both stores empty, the StudentDatabase map empty, no call made yet
EquivInit ==
    /\ fallback = <<>>
    /\ remote = EmptyRelation
    /\ cl = [students |-> <<>>, ret |-> None]
    /\ last = NoCall
    /\ prev = NoCall
    /\ scope = [keys |-> RollNos, bodies |-> Bodies, nets |-> OutageNets,
                depth |-> 1]

\* one facade call and the corresponding StudentDatabase call
InStep(run, entry, db) ==
    /\ fallback' = run.fb
    /\ remote' = run.rem
    /\ prev' = Remember(last)
    /\ last' = entry
    /\ cl' = db
    /\ UNCHANGED scope

BothGetStudent(rollNo, net) ==
    \E run \in {RunGetStudent(rollNo, net, fallback, remote)} :
        InStep(run,
               Entry("getStudent", rollNo, None, net, run.ret, fallback,
                     remote, "none", 0),
               StudentDatabaseGetStudent(cl.students, rollNo))

BothGetAllStudents(net) ==
    \E run \in {RunGetAllStudents(net, fallback, remote)} :
        InStep(run,
               Entry("getAllStudents", "", None, net, run.ret, fallback,
                     remote, "none", 0),
               StudentDatabaseGetAllStudents(cl.students))

BothCreateStudent(student, net) ==
    \E run \in {RunCreateStudent(student, net, fallback, remote)} :
        InStep(run,
               Entry("createStudent", student.rollNo, student, net, run.ret,
                     fallback, remote, "none", 0),
               StudentDatabaseCreateStudent(cl.students, student))

BothDeleteStudent(rollNo, net) ==
    \E run \in {RunDeleteStudent(rollNo, net, fallback, remote)} :
        InStep(run,
               Entry("deleteStudent", rollNo, None, net, run.ret, fallback,
                     remote, "none", 0),
               StudentDatabaseDeleteStudent(cl.students, rollNo))

BothStudentExists(rollNo, net) ==
    \E run \in {RunStudentExists(rollNo, net, fallback, remote)} :
        InStep(run,
               Entry("studentExists", rollNo, None, net, run.ret, fallback,
                     remote, "none", 0),
               StudentDatabaseStudentExists(cl.students, rollNo))

BothGetStudentCount(net) ==
    \E run \in {RunGetStudentCount(net, fallback, remote)} :
        InStep(run,
               Entry("getStudentCount", "", None, net, run.ret, fallback,
                     remote, "none", 0),
               StudentDatabaseGetStudentCount(cl.students))

EquivNext ==
    \/ \E r \in scope.keys, net \in scope.nets : BothGetStudent(r, net)
    \/ \E net \in scope.nets : BothGetAllStudents(net)
    \/ \E r \in scope.keys, b \in scope.bodies, net \in scope.nets :
           BothCreateStudent(NewStudent(r, b), net)
    \/ \E r \in scope.keys, net \in scope.nets : BothDeleteStudent(r, net)
    \/ \E r \in scope.keys, net \in scope.nets : BothStudentExists(r, net)
    \/ \E net \in scope.nets : BothGetStudentCount(net)

EquivSpec == EquivInit /\ [][EquivNext]_vars

\* null standing for undefined
NullForUndefined(v) == IF v = Undefined THEN Null ELSE v

\* C36: while every remote call is fallback-indicated, each facade call of
\* get, getAll, create, delete, exists and count, in any sequence started
\* from empty stores, returns what the corresponding StudentDatabase call
\* returns (null standing for undefined), and after every step the Fallback
\* Store equals the StudentDatabase map.
C36_FacadeMatchesStudentDatabase ==
    /\ fallback = cl.students
    /\ last.op # "none" => last.ret = NullForUndefined(cl.ret)

C36_Witness ==
    /\ last.op = "getAllStudents"
    /\ last.out = "fallback"
    /\ Len(fallback) = 2
    /\ fallback[1].k = "102"
    /\ fallback[1].v # fallback[2].v
    /\ last.ret = Array(MapValues(cl.students))
    /\ cl.ret = last.ret

====
